---- MODULE Spec2Model ----
(***************************************************************************)
(* The trading-signal engine of market-watcher-pro: the auto-invest        *)
(* function (execute-pending-signals) and the signal scanner with its      *)
(* auto-execution, over a shared signal / order / position store.          *)
(*                                                                         *)
(* Units.  Money and prices are whole currency units.  Percentages are     *)
(* kept in tenths of a percent (5 percent is 50), so that the 0.1 percent  *)
(* clamps of the code are the integer 1.  A protective price (stop loss,   *)
(* take profit, trailing stop) is kept in thousandths of a currency unit:  *)
(* price * (1000 - pct), which is price * (1 - percent / 100) * 1000.      *)
(* An optional (nullable) column is a sequence of length 0 (null) or 1.    *)
(***************************************************************************)
EXTENDS Integers, Sequences, FiniteSets, TLC

(* ------------------------------ bounds -------------------------------- *)
NumUsers == 2
NumWorkers == 2
MaxSignals == 2
MaxTime == 3
MaxPasses == 3
MaxFaults == 1

(* ------------------------- program constants -------------------------- *)
DefaultAccountValue == 100000
MaxMoney == 1000000
DefaultPositionValue == 10000
DefaultPercent == 50
DefaultMaxDailyTrades == 10
DefaultMaxDailyLoss == 1000
MaxTradesCap == 1000
MaxQuantity == 1000000

Users == 1..NumUsers
Workers == 1..NumWorkers
Times == 0..MaxTime

Null == <<>>
Some(x) == <<x>>
IsNull(o) == o = <<>>
\* JavaScript truthiness of a nullable number: null and 0 are falsy
Truthy(o) == o # <<>> /\ o[1] # 0

Min(a, b) == IF a <= b THEN a ELSE b
Max(a, b) == IF a >= b THEN a ELSE b
\* JavaScript `x || d` on a number
OrDefault(x, d) == IF x = 0 THEN d ELSE x

BuySignalTypes == {"bb_breakout_up", "bb_mean_reversion_up", "vwap_cross_up"}
SignalTypes == BuySignalTypes \cup
    {"bb_breakout_down", "bb_mean_reversion_down", "vwap_cross_down"}

(* percent clamps, in tenths of a percent *)
MinPercent == 1
MaxSizePercent == 1000
MaxStopLossPercent == 500
MaxTakeProfitPercent == 1000
MinRuleValue == 100
MaxTrailingPercent == 500
DefaultTrailingPercent == 50

(* --------------------------- configuration ---------------------------- *)
\* signal_rules rows of the engine specifications: one rule per signal type,
\* with and without the protective percentages
DefaultRules == <<
    [user_id |-> 1, signal_type |-> "bb_breakout_up", enabled |-> TRUE,
     position_size_percent |-> 50, max_position_value |-> 10000,
     trailing_stop_percent |-> Some(50), stop_loss_percent |-> Some(200),
     take_profit_percent |-> Some(100)],
    [user_id |-> 1, signal_type |-> "bb_breakout_down", enabled |-> TRUE,
     position_size_percent |-> 50, max_position_value |-> 10000,
     trailing_stop_percent |-> Null, stop_loss_percent |-> Null,
     take_profit_percent |-> Null],
    [user_id |-> 1, signal_type |-> "vwap_cross_up", enabled |-> TRUE,
     position_size_percent |-> 50, max_position_value |-> 10000,
     trailing_stop_percent |-> Null, stop_loss_percent |-> Null,
     take_profit_percent |-> Some(100)],
    [user_id |-> 1, signal_type |-> "vwap_cross_down", enabled |-> TRUE,
     position_size_percent |-> 50, max_position_value |-> 10000,
     trailing_stop_percent |-> Some(50), stop_loss_percent |-> Some(200),
     take_profit_percent |-> Some(100)],
    [user_id |-> 2, signal_type |-> "bb_mean_reversion_up", enabled |-> TRUE,
     position_size_percent |-> 50, max_position_value |-> 10000,
     trailing_stop_percent |-> Null, stop_loss_percent |-> Some(200),
     take_profit_percent |-> Null],
    [user_id |-> 2, signal_type |-> "bb_mean_reversion_down", enabled |-> TRUE,
     position_size_percent |-> 50, max_position_value |-> 10000,
     trailing_stop_percent |-> Null, stop_loss_percent |-> Null,
     take_profit_percent |-> Null] >>

\* watchlist rows: one enabled item per user
Watchlist == [i \in Users |-> [user_id |-> i, enabled |-> TRUE, vwap_enabled |-> (i = 1)]]

ScanPrices == {40, 150}
BandLevels == {40, 100, 150}

(* ------------------------------- state -------------------------------- *)
VARIABLES
    settings,   \* trading_settings: one row per user
    signalRules,\* signal_rules table, a row's id is its index
    signals,    \* signals table, a row's id is its index
    orders,     \* orders table, a row's id is its index
    positions,  \* positions table
    now,        \* the clock (time of day, New York)
    eps,        \* execute-pending-signals: per worker, its place and locals
    scan,       \* signal scanner: its place and locals
    uts,        \* update-trailing-stops: its place and locals
    utsOverlap, \* update-trailing-stops: an invocation that overlaps the first
    ind,        \* indicator engine and detector: the last evaluation, inputs and result
    risk,       \* check-risk-limits: the riskStatus of its last response
    passes,     \* overlapping passes started so far
    faults      \* store writes that may still fail (the model's fault budget)

vars == <<settings, signalRules, signals, orders, positions, now, eps, scan, uts, utsOverlap,
          ind, risk, passes, faults>>

(* -------------------------- pure functions ---------------------------- *)
isWithinTradingHours(start, end, t) == t >= start /\ t <= end

\* 1000 * min(maxFromSettings, maxFromRule, percentageSize)
EpsMaxValue(s, rule, accountValue) ==
    LET maxFromSettings == Max(0, Min(MaxMoney, OrDefault(s.max_position_size, DefaultPositionValue)))
        maxFromRule == Max(0, Min(MaxMoney, OrDefault(rule.max_position_value, DefaultPositionValue)))
        positionSizePercent == Max(MinPercent, Min(MaxSizePercent, OrDefault(rule.position_size_percent, DefaultPercent)))
        percentageSize == accountValue * positionSizePercent
    IN  Min(Min(1000 * maxFromSettings, 1000 * maxFromRule), percentageSize)

calculatePositionSize(s, rule, currentPrice, accountValue) ==
    IF currentPrice <= 0 THEN 0
    ELSE IF accountValue <= 0 THEN 0
    ELSE Max(0, Min(MaxQuantity, EpsMaxValue(s, rule, accountValue) \div (1000 * currentPrice)))

\* the scanner's own sizing; 0 stands for "no order" (quantity <= 0 or > 1000000)
ScanMaxValue(s, rule, accountValue) ==
    LET positionSizePercent == Max(MinPercent, Min(MaxSizePercent, OrDefault(rule.position_size_percent, DefaultPercent)))
        maxPositionValue == Max(MinRuleValue, Min(MaxMoney, OrDefault(rule.max_position_value, DefaultPositionValue)))
    IN  Min(Min(1000 * OrDefault(s.max_position_size, DefaultPositionValue), 1000 * maxPositionValue),
            accountValue * positionSizePercent)

ScanQuantity(s, rule, currentPrice) ==
    ScanMaxValue(s, rule, DefaultAccountValue) \div (1000 * currentPrice)

OrderSide(signalType) == IF signalType \in BuySignalTypes THEN "buy" ELSE "sell"
SideSign(side) == IF side = "buy" THEN 1 ELSE -1

StopLossPercent(rule) ==
    IF Truthy(rule.stop_loss_percent)
    THEN Some(Max(MinPercent, Min(MaxStopLossPercent, rule.stop_loss_percent[1])))
    ELSE Null
TakeProfitPercent(rule) ==
    IF Truthy(rule.take_profit_percent)
    THEN Some(Max(MinPercent, Min(MaxTakeProfitPercent, rule.take_profit_percent[1])))
    ELSE Null

\* a faulty variant: the stop loss of a long position, whatever the side
StopLossPriceLongOnly(price, side, pct) ==
    IF Truthy(pct) THEN Some(price * (1000 - pct[1])) ELSE Null

StopLossPrice(price, side, pct) ==
    IF Truthy(pct) THEN Some(price * (1000 - SideSign(side) * pct[1])) ELSE Null
TakeProfitPrice(price, side, pct) ==
    IF Truthy(pct) THEN Some(price * (1000 + SideSign(side) * pct[1])) ELSE Null
InitialTrailingStop(price, rule) ==
    IF Truthy(rule.trailing_stop_percent)
    THEN Some(price * (1000 - rule.trailing_stop_percent[1]))
    ELSE Null

\* the row both execution paths insert into orders; of ibkr_order_id only the
\* prefix is kept (AUTO- for execute-pending-signals, SCAN- for the scanner)
NewOrder(prefix, id, user, sid, signalType, price, quantity, rule) ==
    LET side == OrderSide(signalType) IN
    [id |-> id, ibkr_order_id |-> prefix, user_id |-> user, signal_id |-> sid, side |-> side,
     quantity |-> quantity, limit_price |-> price, status |-> "submitted",
     filled_price |-> Null,
     trailing_stop_percent |-> rule.trailing_stop_percent,
     stop_loss_price |-> StopLossPrice(price, side, StopLossPercent(rule)),
     take_profit_price |-> TakeProfitPrice(price, side, TakeProfitPercent(rule))]

\* a faulty variant: the position quantity without its sign
PositionQuantityUnsigned(side, quantity) == quantity

PositionQuantity(side, quantity) == IF side = "buy" THEN quantity ELSE -quantity

\* the row both execution paths insert into positions, from their locals
\* (unrealized_pnl is not set and takes the column's default, null)
NewPosition(order, price, rule) ==
    [user_id |-> order.user_id, order_id |-> order.id,
     quantity |-> PositionQuantity(order.side, order.quantity),
     avg_cost |-> price, current_price |-> Some(price), unrealized_pnl |-> Null,
     trailing_stop_price |-> InitialTrailingStop(price, rule),
     stop_loss_price |-> order.stop_loss_price,
     take_profit_price |-> order.take_profit_price,
     is_open |-> TRUE, closed_at |-> Null]

(* ------------------------------ the store ----------------------------- *)
RECURSIVE SeqSum(_)
SeqSum(q) == IF q = <<>> THEN 0 ELSE Head(q) + SeqSum(Tail(q))

RECURSIVE Ascending(_)
\* the members of a set of row ids, in ascending order
Ascending(S) ==
    IF S = {} THEN <<>>
    ELSE LET m == CHOOSE x \in S : \A y \in S : x <= y
         IN  <<m>> \o Ascending(S \ {m})

\* every order of the model is created on the one day it covers
TodaysTrades(u) == Cardinality({i \in 1..Len(orders) : orders[i].user_id = u})

OrderPnL(o) ==
    IF Truthy(o.filled_price) /\ o.quantity # 0
    THEN IF o.side = "buy" THEN -(o.filled_price[1] * o.quantity)
         ELSE o.filled_price[1] * o.quantity
    ELSE 0

DailyPnL(u) ==
    LET ids == Ascending({i \in 1..Len(orders) :
                            orders[i].user_id = u /\ orders[i].status = "filled"})
    IN  SeqSum([k \in 1..Len(ids) |-> OrderPnL(orders[ids[k]])])

EffectiveMaxDailyTrades(s) ==
    Max(1, Min(MaxTradesCap, OrDefault(s.max_daily_trades, DefaultMaxDailyTrades)))
EffectiveMaxDailyLoss(s) ==
    Max(0, Min(MaxMoney, OrDefault(s.max_daily_loss, DefaultMaxDailyLoss)))

AutoTradeSettings ==
    LET ids == Ascending({u \in Users : settings[u].auto_trade_enabled})
    IN  [k \in 1..Len(ids) |-> settings[ids[k]]]

\* a faulty variant: the selection without the executed = false filter
UnexecutedSignalsAnyState(u) ==
    Ascending({i \in 1..Len(signals) : signals[i].user_id = u})

UnexecutedSignals(u) ==
    Ascending({i \in 1..Len(signals) : signals[i].user_id = u /\ ~signals[i].executed})

\* faulty variant: the flag is flipped
MarkExecutedFlips(rows, id) == [rows EXCEPT ![id].executed = ~@]

\* update({ executed: true }) of the signal with this id
MarkExecuted(rows, id) == [rows EXCEPT ![id].executed = TRUE]

\* a store write succeeds, or fails while the model's fault budget lasts
WriteOutcomes == IF faults > 0 THEN {TRUE, FALSE} ELSE {TRUE}

(* ---------------------- execute-pending-signals ----------------------- *)
EpsIdle == [pc |-> "idle", users |-> <<>>, ui |-> 0, sigs |-> <<>>, si |-> 0,
            ord |-> <<>>, executed |-> <<>>, skipped |-> <<>>]

\* the loop over allSettings moves on to the next user, or the pass responds
AfterUser(r) ==
    IF r.ui < Len(r.users)
    THEN [r EXCEPT !.pc = "gate", !.ui = r.ui + 1, !.sigs = <<>>, !.si = 0, !.ord = <<>>]
    ELSE [r EXCEPT !.pc = "respond", !.sigs = <<>>, !.si = 0, !.ord = <<>>]

\* a faulty variant: leaving the signal loop instead of continuing it
AfterSignalBreaks(r) == AfterUser(r)

\* the loop over signals moves on to the next signal, or to the next user
AfterSignal(r) ==
    IF r.si < Len(r.sigs)
    THEN [r EXCEPT !.pc = "exec", !.si = r.si + 1, !.ord = <<>>]
    ELSE AfterUser(r)

SkipUser(r, reason) ==
    AfterUser([r EXCEPT !.skipped = Append(@, [user_id |-> r.users[r.ui].user_id, signal_id |-> 0, reason |-> reason])])
\* a faulty variant: the signal is passed over without a reason
SkipSignalSilently(r, reason) == AfterSignal(r)
SkipSignal(r, reason) ==
    AfterSignal([r EXCEPT !.skipped = Append(@, [user_id |-> 0, signal_id |-> r.sigs[r.si], reason |-> reason])])

\* select the trading_settings rows with auto_trade_enabled
\* (the specification says how passes are counted)
EpsLoad(w) ==
    /\ eps[w].pc = "idle"
    /\ LET rows == AutoTradeSettings IN
       eps' = [eps EXCEPT ![w] =
                 IF rows = <<>> THEN EpsIdle
                 ELSE [EpsIdle EXCEPT !.pc = "gate", !.users = rows, !.ui = 1]]
    /\ UNCHANGED <<risk, ind, uts, settings, signalRules, utsOverlap, signals, orders, positions, now, scan, faults>>

\* a faulty variant: the count of today's orders checked before the hours
EpsGateTradesFirst(w) ==
    /\ eps[w].pc = "gate"
    /\ LET r == eps[w]
           s == r.users[r.ui]
       IN  eps' = [eps EXCEPT ![w] =
                 IF TodaysTrades(s.user_id) >= EffectiveMaxDailyTrades(s)
                 THEN SkipUser(r, "Max daily trades reached")
                 ELSE IF ~isWithinTradingHours(s.trading_hours_start, s.trading_hours_end, now)
                 THEN SkipUser(r, "Outside trading hours")
                 ELSE [r EXCEPT !.pc = "pnl"]]
    /\ UNCHANGED <<risk, ind, uts, settings, signalRules, utsOverlap, signals, orders, positions, now, scan, passes, faults>>

\* trading hours, then the count of today's orders
EpsGate(w) ==
    /\ eps[w].pc = "gate"
    /\ LET r == eps[w]
           s == r.users[r.ui]
       IN  eps' = [eps EXCEPT ![w] =
                 IF ~isWithinTradingHours(s.trading_hours_start, s.trading_hours_end, now)
                 THEN SkipUser(r, "Outside trading hours")
                 ELSE IF TodaysTrades(s.user_id) >= EffectiveMaxDailyTrades(s)
                 THEN SkipUser(r, "Max daily trades reached")
                 ELSE [r EXCEPT !.pc = "pnl"]]
    /\ UNCHANGED <<risk, ind, uts, settings, signalRules, utsOverlap, signals, orders, positions, now, scan, passes, faults>>

\* today's filled orders and the daily loss limit
EpsPnl(w) ==
    /\ eps[w].pc = "pnl"
    /\ LET r == eps[w]
           s == r.users[r.ui]
       IN  eps' = [eps EXCEPT ![w] =
                 IF DailyPnL(s.user_id) <= -EffectiveMaxDailyLoss(s)
                 THEN SkipUser(r, "Max daily loss reached")
                 ELSE [r EXCEPT !.pc = "select"]]
    /\ UNCHANGED <<risk, ind, uts, settings, signalRules, utsOverlap, signals, orders, positions, now, scan, passes, faults>>

\* select the user's unexecuted signals with their rules
EpsSelect(w) ==
    /\ eps[w].pc = "select"
    /\ LET r == eps[w]
           sel == UnexecutedSignals(r.users[r.ui].user_id)
       IN  eps' = [eps EXCEPT ![w] =
                 IF sel = <<>> THEN AfterUser(r)
                 ELSE [r EXCEPT !.pc = "exec", !.sigs = sel, !.si = 1]]
    /\ UNCHANGED <<risk, ind, uts, settings, signalRules, utsOverlap, signals, orders, positions, now, scan, passes, faults>>

\* validate the price, size the position, insert the order
EpsOrder(w) ==
    /\ eps[w].pc = "exec"
    /\ LET r == eps[w]
           s == r.users[r.ui]
           sid == r.sigs[r.si]
           sg == signals[sid]
           rule == signalRules[sg.signal_rule_id]
           quantity == calculatePositionSize(s, rule, sg.price_at_signal, DefaultAccountValue)
           order == NewOrder("AUTO", Len(orders) + 1, s.user_id, sid, sg.signal_type,
                             sg.price_at_signal, quantity, rule)
       IN  IF sg.price_at_signal <= 0
           THEN /\ eps' = [eps EXCEPT ![w] = SkipSignal(r, "Invalid price")]
                /\ UNCHANGED <<orders, faults>>
           ELSE IF quantity <= 0
           THEN /\ eps' = [eps EXCEPT ![w] = SkipSignal(r, "Position size too small")]
                /\ UNCHANGED <<orders, faults>>
           ELSE \E ok \in WriteOutcomes :
                  IF ok
                  THEN /\ orders' = Append(orders, order)
                       /\ eps' = [eps EXCEPT ![w] = [r EXCEPT !.pc = "mark", !.ord = Some(order)]]
                       /\ UNCHANGED faults
                  ELSE /\ faults' = faults - 1
                       /\ eps' = [eps EXCEPT ![w] = AfterSignal(r)]
                       /\ UNCHANGED orders
    /\ UNCHANGED <<risk, ind, uts, settings, signalRules, utsOverlap, signals, positions, now, scan, passes>>

\* update the signal: executed = true (the result is not looked at)
EpsMark(w) ==
    /\ eps[w].pc = "mark"
    /\ LET r == eps[w] IN
       /\ \E ok \in WriteOutcomes :
            IF ok
            THEN /\ signals' = MarkExecuted(signals, r.sigs[r.si])
                 /\ UNCHANGED faults
            ELSE /\ faults' = faults - 1
                 /\ UNCHANGED signals
       /\ eps' = [eps EXCEPT ![w] = [r EXCEPT !.pc = "position"]]
    /\ UNCHANGED <<risk, ind, uts, settings, signalRules, utsOverlap, orders, positions, now, scan, passes>>

\* insert the position (the result is not looked at), report the execution
EpsPosition(w) ==
    /\ eps[w].pc = "position"
    /\ LET r == eps[w]
           sg == signals[r.sigs[r.si]]
           rule == signalRules[sg.signal_rule_id]
           order == r.ord[1]
       IN
       /\ \E ok \in WriteOutcomes :
            IF ok
            THEN /\ positions' = Append(positions, NewPosition(order, sg.price_at_signal, rule))
                 /\ UNCHANGED faults
            ELSE /\ faults' = faults - 1
                 /\ UNCHANGED positions
       /\ eps' = [eps EXCEPT ![w] = AfterSignal([r EXCEPT !.executed = Append(@, order.id)])]
    /\ UNCHANGED <<risk, ind, uts, settings, signalRules, utsOverlap, signals, orders, now, scan, passes>>

\* the response: { message, executed, skipped }
EpsRespond(w) ==
    /\ eps[w].pc = "respond"
    /\ eps' = [eps EXCEPT ![w] = EpsIdle]
    /\ UNCHANGED <<risk, ind, uts, settings, signalRules, utsOverlap, signals, orders, positions, now, scan, passes, faults>>

(* --------------------------- signal scanner --------------------------- *)
ScanIdle == [pc |-> "idle", items |-> <<>>, ii |-> 0, rules |-> {}, detected |-> <<>>,
             work |-> <<>>, wi |-> 0, price |-> 0, sig |-> 0, quantity |-> 0, ord |-> <<>>]

(* -------------------------- indicator engine -------------------------- *)
IndIdle == [op |-> "none"]

\* a price as an exact fraction num/den (den > 0)
Fraction(num, den) == [num |-> num, den |-> den]
SameValue(a, b) == a.num * b.den = b.num * a.den

\* (bar.high + bar.low + bar.close) / 3
TypicalPrice(bar) == Fraction(bar.high + bar.low + bar.close, 3)

RECURSIVE CumulativeTPV3(_)
\* three times the cumulativeTPV of the loop: the sum of (high + low + close) * volume
CumulativeTPV3(bars) ==
    IF bars = <<>> THEN 0
    ELSE (Head(bars).high + Head(bars).low + Head(bars).close) * Head(bars).volume
         + CumulativeTPV3(Tail(bars))

CumulativeVolume(bars) == SeqSum([k \in 1..Len(bars) |-> bars[k].volume])

\* faulty variant: the plain average of the volume-weighted typical prices
calculateVWAPPerBar(bars) ==
    IF Len(bars) > 0 THEN Fraction(CumulativeTPV3(bars), 3 * Len(bars)) ELSE Fraction(0, 1)

calculateVWAP(bars) ==
    IF CumulativeVolume(bars) > 0
    THEN Fraction(CumulativeTPV3(bars), 3 * CumulativeVolume(bars))
    ELSE Fraction(0, 1)

\* faulty variant: the down reversion also fires when the price lands on the upper band
DetectSignalsClosedBand(previousPrice, currentPrice, upper, lower, vwap) ==
    (IF previousPrice <= upper /\ currentPrice > upper THEN <<"bb_breakout_up">> ELSE <<>>)
    \o (IF previousPrice >= lower /\ currentPrice < lower THEN <<"bb_breakout_down">> ELSE <<>>)
    \o (IF previousPrice < lower /\ currentPrice > lower THEN <<"bb_mean_reversion_up">> ELSE <<>>)
    \o (IF previousPrice > upper /\ currentPrice <= upper THEN <<"bb_mean_reversion_down">> ELSE <<>>)
    \o (IF Truthy(vwap) /\ previousPrice <= vwap[1] /\ currentPrice > vwap[1]
        THEN <<"vwap_cross_up">> ELSE <<>>)
    \o (IF Truthy(vwap) /\ previousPrice >= vwap[1] /\ currentPrice < vwap[1]
        THEN <<"vwap_cross_down">> ELSE <<>>)

\* the detected signal types, in the order the code pushes them
DetectSignals(previousPrice, currentPrice, upper, lower, vwap) ==
    (IF previousPrice <= upper /\ currentPrice > upper THEN <<"bb_breakout_up">> ELSE <<>>)
    \o (IF previousPrice >= lower /\ currentPrice < lower THEN <<"bb_breakout_down">> ELSE <<>>)
    \o (IF previousPrice < lower /\ currentPrice > lower THEN <<"bb_mean_reversion_up">> ELSE <<>>)
    \o (IF previousPrice > upper /\ currentPrice < upper THEN <<"bb_mean_reversion_down">> ELSE <<>>)
    \o (IF Truthy(vwap) /\ previousPrice <= vwap[1] /\ currentPrice > vwap[1]
        THEN <<"vwap_cross_up">> ELSE <<>>)
    \o (IF Truthy(vwap) /\ previousPrice >= vwap[1] /\ currentPrice < vwap[1]
        THEN <<"vwap_cross_down">> ELSE <<>>)

\* faulty variant: the user is not compared
MatchingRulesAnyUser(rules, user, signalType) ==
    Ascending({r \in rules : signalRules[r].signal_type = signalType})

\* the snapshot's rules of this user and signal type
MatchingRules(rules, user, signalType) ==
    Ascending({r \in rules : signalRules[r].user_id = user
                             /\ signalRules[r].signal_type = signalType})

RECURSIVE RuleWorkFirstRule(_, _, _)
\* faulty variant: only the first matching rule of a signal type is processed
RuleWorkFirstRule(rules, user, detected) ==
    IF detected = <<>> THEN <<>>
    ELSE LET m == MatchingRules(rules, user, Head(detected))
         IN  (IF m = <<>> THEN <<>> ELSE << <<Head(detected), m[1]>> >>)
             \o RuleWorkFirstRule(rules, user, Tail(detected))

RECURSIVE RuleWork(_, _, _)
\* the (signal type, rule) pairs of the nested loops, in loop order
RuleWork(rules, user, detected) ==
    IF detected = <<>> THEN <<>>
    ELSE LET m == MatchingRules(rules, user, Head(detected))
         IN  [k \in 1..Len(m) |-> <<Head(detected), m[k]>>]
             \o RuleWork(rules, user, Tail(detected))

AfterItem(r) ==
    IF r.ii < Len(r.items)
    THEN [r EXCEPT !.pc = "item", !.ii = r.ii + 1, !.work = <<>>, !.wi = 0,
                   !.price = 0, !.sig = 0, !.quantity = 0, !.ord = <<>>]
    ELSE [r EXCEPT !.pc = "respond", !.work = <<>>, !.wi = 0,
                   !.price = 0, !.sig = 0, !.quantity = 0, !.ord = <<>>]

AfterRule(r) ==
    IF r.wi < Len(r.work)
    THEN [r EXCEPT !.pc = "signal", !.wi = r.wi + 1, !.sig = 0, !.quantity = 0, !.ord = <<>>]
    ELSE AfterItem(r)

\* the users with auto-trade enabled, their enabled watchlist items and rules
ScanLoad ==
    /\ scan.pc = "idle"
    /\ LET userIds == {u \in Users : settings[u].auto_trade_enabled}
           items == Ascending({i \in DOMAIN Watchlist :
                                 Watchlist[i].user_id \in userIds /\ Watchlist[i].enabled})
           rules == {r \in DOMAIN signalRules : signalRules[r].user_id \in userIds /\ signalRules[r].enabled}
       IN  scan' = IF userIds = {} \/ items = <<>> THEN ScanIdle
                   ELSE [ScanIdle EXCEPT !.pc = "item", !.items = items, !.ii = 1, !.rules = rules]
    /\ UNCHANGED <<risk, ind, uts, settings, signalRules, utsOverlap, signals, orders, positions, now, eps, faults>>

\* calculateVWAP's result when VWAP is enabled for the item, else null
VwapLevels(item) == IF item.vwap_enabled THEN {Some(v) : v \in BandLevels} ELSE {Null}

\* one watchlist item: market data, indicators, detection, rule matching
ScanItem ==
    /\ scan.pc = "item"
    /\ \E previousPrice \in ScanPrices, currentPrice \in ScanPrices,
          upper \in BandLevels, lower \in BandLevels,
          vwap \in VwapLevels(Watchlist[scan.items[scan.ii]]) :
         LET item == Watchlist[scan.items[scan.ii]]
             detected == DetectSignals(previousPrice, currentPrice, upper, lower, vwap)
             work == RuleWork(scan.rules, item.user_id, detected)
         IN  /\ lower <= upper
             /\ Len(signals) + Len(work) <= MaxSignals
             /\ scan' = IF work = <<>> THEN AfterItem([scan EXCEPT !.detected = detected])
                        ELSE [scan EXCEPT !.pc = "signal", !.detected = detected,
                                          !.work = work, !.wi = 1, !.price = currentPrice]
    /\ UNCHANGED <<risk, ind, uts, settings, signalRules, utsOverlap, signals, orders, positions, now, eps, passes, faults>>

\* insert the signal of the current (signal type, rule) pair
ScanSignal ==
    /\ scan.pc = "signal"
    /\ LET item == Watchlist[scan.items[scan.ii]]
           w == scan.work[scan.wi]
       IN  \E ok \in WriteOutcomes :
             IF ok
             THEN /\ signals' = Append(signals,
                        [user_id |-> item.user_id, signal_rule_id |-> w[2],
                         signal_type |-> w[1], price_at_signal |-> scan.price,
                         executed |-> FALSE])
                  /\ scan' = [scan EXCEPT !.pc = "settings", !.sig = Len(signals) + 1]
                  /\ UNCHANGED faults
             ELSE /\ faults' = faults - 1
                  /\ scan' = AfterRule(scan)
                  /\ UNCHANGED signals
    /\ UNCHANGED <<risk, ind, uts, settings, signalRules, utsOverlap, orders, positions, now, eps, passes>>

\* read the user's trading settings; size the order if auto-trade is on
ScanSettings ==
    /\ scan.pc = "settings"
    /\ LET item == Watchlist[scan.items[scan.ii]]
           userSettings == settings[item.user_id]
           rule == signalRules[scan.work[scan.wi][2]]
           quantity == ScanQuantity(userSettings, rule, scan.price)
       IN  scan' = IF userSettings.auto_trade_enabled /\ quantity > 0 /\ quantity <= MaxQuantity
                   THEN [scan EXCEPT !.pc = "order", !.quantity = quantity]
                   ELSE AfterRule(scan)
    /\ UNCHANGED <<risk, ind, uts, settings, signalRules, utsOverlap, signals, orders, positions, now, eps, passes, faults>>

ScanOrder ==
    /\ scan.pc = "order"
    /\ LET item == Watchlist[scan.items[scan.ii]]
           w == scan.work[scan.wi]
           order == NewOrder("SCAN", Len(orders) + 1, item.user_id, scan.sig, w[1],
                             scan.price, scan.quantity, signalRules[w[2]])
       IN  \E ok \in WriteOutcomes :
             IF ok
             THEN /\ orders' = Append(orders, order)
                  /\ scan' = [scan EXCEPT !.pc = "mark", !.ord = Some(order)]
                  /\ UNCHANGED faults
             ELSE /\ faults' = faults - 1
                  /\ scan' = AfterRule(scan)
                  /\ UNCHANGED orders
    /\ UNCHANGED <<risk, ind, uts, settings, signalRules, utsOverlap, signals, positions, now, eps, passes>>

ScanMark ==
    /\ scan.pc = "mark"
    /\ \E ok \in WriteOutcomes :
         IF ok
         THEN /\ signals' = MarkExecuted(signals, scan.sig)
              /\ UNCHANGED faults
         ELSE /\ faults' = faults - 1
              /\ UNCHANGED signals
    /\ scan' = [scan EXCEPT !.pc = "position"]
    /\ UNCHANGED <<risk, ind, uts, settings, signalRules, utsOverlap, orders, positions, now, eps, passes>>

ScanPosition ==
    /\ scan.pc = "position"
    /\ \E ok \in WriteOutcomes :
         IF ok
         THEN /\ positions' = Append(positions,
                    NewPosition(scan.ord[1], scan.price, signalRules[scan.work[scan.wi][2]]))
              /\ UNCHANGED faults
         ELSE /\ faults' = faults - 1
              /\ UNCHANGED positions
    /\ scan' = AfterRule(scan)
    /\ UNCHANGED <<risk, ind, uts, settings, signalRules, utsOverlap, signals, orders, now, eps, passes>>

ScanRespond ==
    /\ scan.pc = "respond"
    /\ scan' = ScanIdle
    /\ UNCHANGED <<risk, ind, uts, settings, signalRules, utsOverlap, signals, orders, positions, now, eps, passes, faults>>

(* ------------------------ update-trailing-stops ----------------------- *)
UtsIdle == [pc |-> "idle", rows |-> <<>>, pi |-> 0, updates |-> <<>>, logs |-> <<>>]

\* the open positions joined to an order with a trailing-stop percent: the
\* pass works on the rows as they were selected
TrailingPositions ==
    LET ids == Ascending({k \in 1..Len(positions) :
                    /\ positions[k].is_open
                    /\ positions[k].order_id \in 1..Len(orders)
                    /\ ~IsNull(orders[positions[k].order_id].trailing_stop_percent)})
    IN  [j \in 1..Len(ids) |->
            [id |-> ids[j], row |-> positions[ids[j]],
             trailing_stop_percent |-> orders[positions[ids[j]].order_id].trailing_stop_percent[1]]]

\* avg_cost * (1 + (Math.random() - 0.5) * 0.1): within 5 percent of avg_cost
MockPricePercents == {95, 98, 100, 104}
MockPrices(avgCost) == {(avgCost * k) \div 100 : k \in MockPricePercents}

TrailingPercent(pct) ==
    Max(MinPercent, Min(MaxTrailingPercent, OrDefault(pct, DefaultTrailingPercent)))

\* currentPrice * (1 - trailingPercent / 100), in thousandths
NewTrailingStop(currentPrice, pct) == currentPrice * (1000 - TrailingPercent(pct))

\* a faulty variant: the stop follows the price down as well
RaisesStopAlways(position, newTrailingStop) == TRUE

\* the stop is only ever moved up (or set when there is none)
RaisesStop(position, newTrailingStop) ==
    IF Truthy(position.trailing_stop_price)
    THEN newTrailingStop > position.trailing_stop_price[1]
    ELSE TRUE

\* the console lines of the three breach tests, in the order of the code
BreachLogs(position, currentPrice) ==
    (IF Truthy(position.stop_loss_price) /\ 1000 * currentPrice <= position.stop_loss_price[1]
     THEN <<"STOP LOSS HIT">> ELSE <<>>)
    \o (IF Truthy(position.take_profit_price) /\ 1000 * currentPrice >= position.take_profit_price[1]
        THEN <<"TAKE PROFIT HIT">> ELSE <<>>)
    \o (IF Truthy(position.trailing_stop_price) /\ 1000 * currentPrice <= position.trailing_stop_price[1]
        THEN <<"TRAILING STOP HIT">> ELSE <<>>)

UtsLoadPass(pass, passNext) ==
    /\ pass.pc = "idle"
    /\ LET rows == TrailingPositions IN
       passNext = IF rows = <<>> THEN UtsIdle
              ELSE [UtsIdle EXCEPT !.pc = "position", !.rows = rows, !.pi = 1]
    /\ UNCHANGED <<risk, ind, settings, signalRules, signals, orders, positions, now, eps, scan, faults>>

\* one position of the pass: price, new stop, the update, the breach tests
UtsPositionPass(pass, passNext) ==
    /\ pass.pc = "position"
    /\ LET r == pass.rows[pass.pi]
           position == r.row
       IN  \E currentPrice \in MockPrices(position.avg_cost), ok \in WriteOutcomes :
             LET newTrailingStop == NewTrailingStop(currentPrice, r.trailing_stop_percent)
                 raises == RaisesStop(position, newTrailingStop)
                 logs == BreachLogs(position, currentPrice)
                 seen == [id |-> r.id, currentPrice |-> currentPrice, logs |-> logs]
             IN  /\ (IF raises THEN TRUE ELSE ok)
                 /\ positions' =
                      IF raises /\ ok
                      THEN [positions EXCEPT ![r.id] =
                              [@ EXCEPT !.current_price = Some(currentPrice),
                                        !.unrealized_pnl =
                                            Some((currentPrice - position.avg_cost) * position.quantity),
                                        !.trailing_stop_price = Some(newTrailingStop)]]
                      ELSE positions
                 /\ faults' = IF raises /\ ~ok THEN faults - 1 ELSE faults
                 /\ passNext = [pass EXCEPT
                      !.pc = IF pass.pi < Len(pass.rows) THEN "position" ELSE "respond",
                      !.pi = IF pass.pi < Len(pass.rows) THEN pass.pi + 1 ELSE pass.pi,
                      !.updates = IF raises /\ ok
                                  THEN Append(@, [id |-> r.id, oldStop |-> position.trailing_stop_price,
                                                  newStop |-> newTrailingStop,
                                                  currentPrice |-> currentPrice])
                                  ELSE @,
                      !.logs = Append(@, seen)]
    /\ UNCHANGED <<risk, ind, settings, signalRules, signals, orders, now, eps, scan, passes>>

\* the response: { message, updates }
UtsRespondPass(pass, passNext) ==
    /\ pass.pc = "respond"
    /\ passNext = UtsIdle
    /\ UNCHANGED <<risk, ind, settings, signalRules, signals, orders, positions, now, eps, scan, passes, faults>>

\* the invocation the specifications follow
UtsLoad == UtsLoadPass(uts, uts') /\ UNCHANGED utsOverlap
UtsPosition == UtsPositionPass(uts, uts') /\ UNCHANGED utsOverlap
UtsRespond == UtsRespondPass(uts, uts') /\ UNCHANGED utsOverlap

\* a second invocation, running while the first is under way
OverlapLoad == UtsLoadPass(utsOverlap, utsOverlap') /\ UNCHANGED uts
OverlapPosition == UtsPositionPass(utsOverlap, utsOverlap') /\ UNCHANGED uts
OverlapRespond == UtsRespondPass(utsOverlap, utsOverlap') /\ UNCHANGED uts

(* -------------------------- check-risk-limits ------------------------- *)
Abs(x) == IF x < 0 THEN -x ELSE x

\* Math.abs((pos.current_price || 0) * pos.quantity), summed over the user's
\* open positions
TotalPositionValue(u) ==
    LET ids == Ascending({k \in 1..Len(positions) :
                             positions[k].user_id = u /\ positions[k].is_open})
    IN  SeqSum([j \in 1..Len(ids) |->
                  Abs((IF Truthy(positions[ids[j]].current_price)
                       THEN positions[ids[j]].current_price[1] ELSE 0)
                      * positions[ids[j]].quantity)])

\* the riskStatus entry of one trading_settings row
RiskStatus(s) ==
    [user_id |-> s.user_id,
     trades_today |-> TodaysTrades(s.user_id),
     max_trades |-> s.max_daily_trades,
     position_value |-> TotalPositionValue(s.user_id),
     max_position |-> s.max_position_size,
     within_limits |-> /\ TodaysTrades(s.user_id) < s.max_daily_trades
                       /\ TotalPositionValue(s.user_id) < s.max_position_size]

\* check-risk-limits: reads settings, orders and positions, responds with
\* { riskStatus }, writes nothing
CheckRiskLimits ==
    /\ risk' = [k \in 1..Len(AutoTradeSettings) |-> RiskStatus(AutoTradeSettings[k])]
    /\ UNCHANGED <<ind, uts, settings, signalRules, utsOverlap, signals, orders, positions, now, eps, scan,
                   faults>>

(* ---------------------------- environment ----------------------------- *)
Tick ==
    /\ now < MaxTime
    /\ now' = now + 1
    /\ UNCHANGED <<risk, ind, uts, settings, signalRules, utsOverlap, signals, orders, positions, eps, scan, passes, faults>>

\* the user switches auto-trading in the settings dialog
SetAutoTrade(u) ==
    /\ settings' = [settings EXCEPT ![u].auto_trade_enabled = ~@]
    /\ UNCHANGED <<risk, ind, uts, signalRules, utsOverlap, signals, orders, positions, now, eps, scan, passes, faults>>

\* the broker fills a submitted order at its limit price
BrokerFill(i) ==
    /\ i \in 1..Len(orders)
    /\ orders[i].status = "submitted"
    /\ orders' = [orders EXCEPT ![i].status = "filled",
                                ![i].filled_price = Some(orders[i].limit_price)]
    /\ UNCHANGED <<risk, ind, uts, settings, signalRules, utsOverlap, signals, positions, now, eps, scan, passes, faults>>

(* ----------------------------- ibkr-orders ---------------------------- *)
\* Requests of a signed-in user with an authenticated broker session; each
\* handler is one step.

\* the row place-order inserts; signalId 0 stands for a request without one
PlacedOrder(id, user, request) ==
    [id |-> id, ibkr_order_id |-> "IBKR", user_id |-> user, signal_id |-> request.signalId,
     side |-> request.side, quantity |-> request.quantity, limit_price |-> request.limitPrice,
     status |-> "submitted", filled_price |-> Null,
     trailing_stop_percent |-> request.trailingStopPercent,
     stop_loss_price |-> request.stopLossPrice,
     take_profit_price |-> request.takeProfitPrice]

\* place-order: the auto-trade check, the order insert (a failure is thrown),
\* then the signal of the request is marked executed (the result is not
\* looked at)
PlaceOrder(user, request) ==
    /\ settings[user].auto_trade_enabled
    /\ request.signalId \in 0..Len(signals)
    /\ \E ok \in WriteOutcomes, marked \in WriteOutcomes :
         /\ (IF ok /\ request.signalId # 0 THEN TRUE ELSE marked)
         /\ orders' = IF ok THEN Append(orders, PlacedOrder(Len(orders) + 1, user, request))
                      ELSE orders
         /\ signals' = IF ok /\ marked /\ request.signalId # 0
                       THEN MarkExecuted(signals, request.signalId)
                       ELSE signals
         /\ faults' = IF ok /\ marked THEN faults ELSE faults - 1
    /\ UNCHANGED <<risk, ind, uts, settings, signalRules, utsOverlap, positions, now, eps, scan, passes>>

\* cancel-order: update({ status: 'cancelled' }) of the user's order with this
\* id, whatever its status (the result is not looked at)
CancelOrder(user, orderId) ==
    /\ orderId \in 1..Len(orders)
    /\ \E ok \in WriteOutcomes :
         /\ orders' = IF ok /\ orders[orderId].user_id = user
                      THEN [orders EXCEPT ![orderId].status = "cancelled"]
                      ELSE orders
         /\ faults' = IF ok THEN faults ELSE faults - 1
    /\ UNCHANGED <<risk, ind, uts, settings, signalRules, utsOverlap, signals, positions, now, eps, scan, passes>>

\* a field of the request replaces the column; a field the request leaves out
\* (Null here) is not part of the update
Patched(column, field) == IF IsNull(field) THEN column ELSE field

\* modify-order: the four columns of the user's order with this id
ModifyOrder(user, orderId, request) ==
    /\ orderId \in 1..Len(orders)
    /\ \E ok \in WriteOutcomes :
         /\ orders' = IF ok /\ orders[orderId].user_id = user
                      THEN [orders EXCEPT
                              ![orderId].limit_price =
                                  IF IsNull(request.limitPrice) THEN @ ELSE request.limitPrice[1],
                              ![orderId].trailing_stop_percent =
                                  Patched(@, request.trailingStopPercent),
                              ![orderId].stop_loss_price = Patched(@, request.stopLossPrice),
                              ![orderId].take_profit_price = Patched(@, request.takeProfitPrice)]
                      ELSE orders
         /\ faults' = IF ok THEN faults ELSE faults - 1
    /\ UNCHANGED <<risk, ind, uts, settings, signalRules, utsOverlap, signals, positions, now, eps, scan, passes>>

(* ----------------------- position details dialog ---------------------- *)
\* closePosition: update({ is_open: false, closed_at: now }) of the position
\* the dialog shows (an error is thrown to the dialog)
ClosePosition(id) ==
    /\ id \in 1..Len(positions)
    /\ positions[id].is_open
    /\ \E ok \in WriteOutcomes :
         /\ positions' = IF ok
                         THEN [positions EXCEPT ![id].is_open = FALSE,
                                                ![id].closed_at = Some(now)]
                         ELSE positions
         /\ faults' = IF ok THEN faults ELSE faults - 1
    /\ UNCHANGED <<risk, ind, uts, utsOverlap, settings, signalRules, signals, orders, now, eps, scan, passes>>

(* --------------------------- specification ---------------------------- *)
SettingsRow(u, trades, loss) ==
    [user_id |-> u, auto_trade_enabled |-> TRUE, max_daily_trades |-> trades,
     max_daily_loss |-> loss, max_position_size |-> DefaultPositionValue,
     trading_hours_start |-> 1, trading_hours_end |-> 2]

\* no pass is running
Quiet == scan.pc = "idle" /\ \A w \in Workers : eps[w].pc = "idle"

EpsStep(w) ==
    \/ EpsGate(w) \/ EpsPnl(w) \/ EpsSelect(w)
    \/ EpsOrder(w) \/ EpsMark(w) \/ EpsPosition(w) \/ EpsRespond(w)

ScanStep ==
    \/ ScanItem \/ ScanSignal \/ ScanSettings
    \/ ScanOrder \/ ScanMark \/ ScanPosition \/ ScanRespond

\* The environment's steps commute with every step that does not read what
\* they change, so each is taken between passes or right before a read of it:
\* auto_trade_enabled is read when a pass loads and by the scanner per signal,
\* the clock by the trading-hours check, filled orders by the daily-loss check.
UserSetsAutoTrade == (Quiet \/ scan.pc = "settings") /\ \E u \in Users : SetAutoTrade(u)
ClockTick == (Quiet \/ \E w \in Workers : eps[w].pc = "gate") /\ Tick
OrderFilled ==
    /\ Quiet \/ \E w \in Workers : eps[w].pc = "pnl"
    /\ \E i \in 1..Len(orders) : BrokerFill(i)

\* The store with faults: inside trading hours, the table defaults as limits,
\* passes one after another (the scheduled jobs do not overlap).
Init ==
    /\ settings = [u \in Users |-> SettingsRow(u, DefaultMaxDailyTrades, DefaultMaxDailyLoss)]
    /\ signalRules = DefaultRules
    /\ signals = <<>>
    /\ orders = <<>>
    /\ positions = <<>>
    /\ now = 1
    /\ eps = [w \in Workers |-> EpsIdle]
    /\ scan = ScanIdle
    /\ uts = UtsIdle
    /\ utsOverlap = UtsIdle
    /\ ind = IndIdle
    /\ risk = <<>>
    /\ passes = 0
    /\ faults = MaxFaults

Next ==
    \/ Quiet /\ EpsLoad(1) /\ UNCHANGED passes
    \/ Quiet /\ ScanLoad /\ UNCHANGED passes
    \/ EpsStep(1)
    \/ ScanStep
    \/ UserSetsAutoTrade

Spec == Init /\ [][Next]_vars

\* The risk gate: the limits drawn from small sets, the clock running from
\* before the trading window to after it, orders being filled; no write fails.
GateTrades == {0, 1}
GateLoss == {0, 5000}

InitGate ==
    /\ \E trades \in GateTrades, loss \in GateLoss :
         settings = [u \in Users |-> SettingsRow(u, trades, loss)]
    /\ signalRules = DefaultRules
    /\ signals = <<>>
    /\ orders = <<>>
    /\ positions = <<>>
    /\ now = 0
    /\ eps = [w \in Workers |-> EpsIdle]
    /\ scan = ScanIdle
    /\ uts = UtsIdle
    /\ utsOverlap = UtsIdle
    /\ ind = IndIdle
    /\ risk = <<>>
    /\ passes = 0
    /\ faults = 0

NextGate ==
    \/ Quiet /\ EpsLoad(1) /\ UNCHANGED passes
    \/ Quiet /\ ScanLoad /\ UNCHANGED passes
    \/ EpsStep(1)
    \/ ScanStep
    \/ UserSetsAutoTrade
    \/ ClockTick
    \/ OrderFilled

SpecGate == InitGate /\ [][NextGate]_vars

\* Overlapping passes: the execute-pending-signals workers and the scanner
\* run concurrently, inside trading hours; no write fails.
InitRace ==
    /\ settings = [u \in Users |-> SettingsRow(u, DefaultMaxDailyTrades, DefaultMaxDailyLoss)]
    /\ signalRules = DefaultRules
    /\ signals = <<>>
    /\ orders = <<>>
    /\ positions = <<>>
    /\ now = 1
    /\ eps = [w \in Workers |-> EpsIdle]
    /\ scan = ScanIdle
    /\ uts = UtsIdle
    /\ utsOverlap = UtsIdle
    /\ ind = IndIdle
    /\ risk = <<>>
    /\ passes = 0
    /\ faults = 0

PassStarts == passes < MaxPasses /\ passes' = passes + 1

NextRace ==
    \/ \E w \in Workers : (PassStarts /\ EpsLoad(w)) \/ EpsStep(w)
    \/ PassStarts /\ ScanLoad
    \/ ScanStep

SpecRace == InitRace /\ [][NextRace]_vars

\* Sizing and protective prices: the rule parameters and the settings cap
\* drawn from small sets (0 is an unset number, the large values are beyond
\* the clamps); passes one after another, inside trading hours; no write fails.
CalcRuleValues == {0, 50, 10000}
CalcSizePercents == {0, 50}
CalcStops == {<<Null, Null>>, <<Some(0), Some(0)>>, <<Some(200), Some(100)>>, <<Some(600), Some(1500)>>}
CalcSettingsValues == {3000, 10000}

CalcRules(value, percent, stops) ==
    [k \in DOMAIN DefaultRules |->
        [DefaultRules[k] EXCEPT !.max_position_value = value,
                                !.position_size_percent = percent,
                                !.stop_loss_percent = stops[1],
                                !.take_profit_percent = stops[2]]]

InitCalc ==
    /\ \E cap \in CalcSettingsValues :
         settings = [u \in Users |->
                       [SettingsRow(u, DefaultMaxDailyTrades, DefaultMaxDailyLoss)
                          EXCEPT !.max_position_size = cap]]
    /\ \E value \in CalcRuleValues, percent \in CalcSizePercents, stops \in CalcStops :
         signalRules = CalcRules(value, percent, stops)
    /\ signals = <<>>
    /\ orders = <<>>
    /\ positions = <<>>
    /\ now = 1
    /\ eps = [w \in Workers |-> EpsIdle]
    /\ scan = ScanIdle
    /\ uts = UtsIdle
    /\ utsOverlap = UtsIdle
    /\ ind = IndIdle
    /\ risk = <<>>
    /\ passes = 0
    /\ faults = 0

SpecCalc == InitCalc /\ [][Next]_vars

\* The position monitor: a long and a short position of user 1 as the
\* execution paths create them (order and position rows of an executed signal
\* at price 100), the protective percentages of their rules drawn from small
\* sets (0 is an unset number, 60 percent lies beyond the clamp); passes of
\* update-trailing-stops one after another, position updates may fail.
MonitorSignalPrices == {100}
MonitorLongTrailing == {Some(0), Some(50), Some(600)}
MonitorShortTrailing == {Null, Some(50)}
MonitorStops == {<<Null, Null>>, <<Some(10), Some(20)>>, <<Some(200), Some(100)>>}

MonitorRule(signalType, trailing, stops) ==
    [user_id |-> 1, signal_type |-> signalType, enabled |-> TRUE,
     position_size_percent |-> DefaultPercent, max_position_value |-> DefaultPositionValue,
     trailing_stop_percent |-> trailing, stop_loss_percent |-> stops[1],
     take_profit_percent |-> stops[2]]

\* the order of signal sid, created by execute-pending-signals
MonitorOrder(s, rules, sid, price) ==
    NewOrder("AUTO", sid, 1, sid, rules[sid].signal_type, price,
             calculatePositionSize(s, rules[sid], price, DefaultAccountValue), rules[sid])

InitMonitor ==
    /\ settings = [u \in Users |-> SettingsRow(u, DefaultMaxDailyTrades, DefaultMaxDailyLoss)]
    /\ \E long \in MonitorLongTrailing, short \in MonitorShortTrailing,
          stops \in MonitorStops, price \in MonitorSignalPrices :
         LET rules == << MonitorRule("bb_breakout_up", long, stops),
                         MonitorRule("bb_breakout_down", short, stops) >>
             made == [sid \in 1..2 |-> MonitorOrder(settings[1], rules, sid, price)]
         IN  /\ signalRules = rules
             /\ signals = [sid \in 1..2 |->
                             [user_id |-> 1, signal_rule_id |-> sid,
                              signal_type |-> rules[sid].signal_type,
                              price_at_signal |-> price, executed |-> TRUE]]
             /\ orders = made
             /\ positions = [sid \in 1..2 |-> NewPosition(made[sid], price, rules[sid])]
    /\ now = 1
    /\ eps = [w \in Workers |-> EpsIdle]
    /\ scan = ScanIdle
    /\ uts = UtsIdle
    /\ utsOverlap = UtsIdle
    /\ ind = IndIdle
    /\ risk = <<>>
    /\ passes = 0
    /\ faults = MaxFaults

NextMonitor ==
    \/ UtsLoad /\ UNCHANGED passes
    \/ UtsPosition
    \/ UtsRespond

SpecMonitor == InitMonitor /\ [][NextMonitor]_vars

\* Two update-trailing-stops invocations that overlap (the function is
\* invoked per request; nothing serialises two requests): the second starts
\* while the first is under way; each reads the open positions, then works
\* through its own rows.
OverlapLongTrailing == {Some(0), Some(50)}

\* one long position with a trailing stop and one short position without,
\* as execute-pending-signals creates them; no write fails
InitOverlap ==
    /\ settings = [u \in Users |-> SettingsRow(u, DefaultMaxDailyTrades, DefaultMaxDailyLoss)]
    /\ \E long \in OverlapLongTrailing, price \in MonitorSignalPrices :
         LET rules == << MonitorRule("bb_breakout_up", long, <<Null, Null>>),
                         MonitorRule("bb_breakout_down", Null, <<Null, Null>>) >>
             made == [sid \in 1..2 |-> MonitorOrder(settings[1], rules, sid, price)]
         IN  /\ signalRules = rules
             /\ signals = [sid \in 1..2 |->
                             [user_id |-> 1, signal_rule_id |-> sid,
                              signal_type |-> rules[sid].signal_type,
                              price_at_signal |-> price, executed |-> TRUE]]
             /\ orders = made
             /\ positions = [sid \in 1..2 |-> NewPosition(made[sid], price, rules[sid])]
    /\ now = 1
    /\ eps = [w \in Workers |-> EpsIdle]
    /\ scan = ScanIdle
    /\ uts = UtsIdle
    /\ utsOverlap = UtsIdle
    /\ ind = IndIdle
    /\ risk = <<>>
    /\ passes = 0
    /\ faults = 0

NextOverlap ==
    \/ UtsLoad /\ UNCHANGED passes
    \/ UtsPosition
    \/ UtsRespond
    \/ uts.pc # "idle" /\ OverlapLoad /\ UNCHANGED passes
    \/ OverlapPosition
    \/ OverlapRespond

SpecOverlap == InitOverlap /\ [][NextOverlap]_vars

\* The indicator engine and the detector on their own: bars and price pairs
\* drawn from small sets that hold the boundary cases (a price on a band, a
\* bar without volume), one evaluation per behaviour, the tables empty.
BarHighs == {100, 101}
BarLows == {99, 100}
BarCloses == {99, 100, 101}
BarVolumes == {0, 1, 1000}
MaxBars == 2
Bars == [high : BarHighs, low : BarLows, close : BarCloses, volume : BarVolumes]
BarSeries == UNION {[1..n -> Bars] : n \in 0..MaxBars}

DetectPrices == 1..5
DetectBands == {<<2, 3>>, <<2, 4>>, <<3, 4>>}     \* <<lower, upper>>
DetectVwaps == {Null, Some(0), Some(2), Some(3)}

\* vwap = calculateVWAP(mockBars)
IndVwap ==
    /\ ind = IndIdle
    /\ \E bars \in BarSeries :
         ind' = [op |-> "vwap", bars |-> bars, vwap |-> calculateVWAP(bars)]
    /\ UNCHANGED <<risk, settings, signalRules, utsOverlap, signals, orders, positions, now, eps, scan, uts,
                   passes, faults>>

\* the crossing tests of one watchlist item
IndDetect ==
    /\ ind = IndIdle
    /\ \E previousPrice \in DetectPrices, currentPrice \in DetectPrices,
          band \in DetectBands, vwap \in DetectVwaps :
         ind' = [op |-> "detect", previousPrice |-> previousPrice,
                 currentPrice |-> currentPrice, lower |-> band[1], upper |-> band[2],
                 vwap |-> vwap,
                 detected |-> DetectSignals(previousPrice, currentPrice, band[2], band[1], vwap)]
    /\ UNCHANGED <<risk, settings, signalRules, utsOverlap, signals, orders, positions, now, eps, scan, uts,
                   passes, faults>>

InitIndicators ==
    /\ settings = [u \in Users |-> SettingsRow(u, DefaultMaxDailyTrades, DefaultMaxDailyLoss)]
    /\ signalRules = DefaultRules
    /\ signals = <<>>
    /\ orders = <<>>
    /\ positions = <<>>
    /\ now = 1
    /\ eps = [w \in Workers |-> EpsIdle]
    /\ scan = ScanIdle
    /\ uts = UtsIdle
    /\ utsOverlap = UtsIdle
    /\ ind = IndIdle
    /\ risk = <<>>
    /\ passes = 0
    /\ faults = MaxFaults

NextIndicators ==
    \/ IndVwap
    \/ IndDetect

SpecIndicators == InitIndicators /\ [][NextIndicators]_vars

\* Rule matching: a rules table with overlapping rules (two of user 1 for
\* bb_breakout_up), a rule of the other user for the same type, rules that may
\* be disabled, and a type without a rule for user 2; one scan at a time,
\* started on an empty signals table, signal and order writes may fail.
MatchRule(user, signalType, enabled) ==
    [user_id |-> user, signal_type |-> signalType, enabled |-> enabled,
     position_size_percent |-> DefaultPercent, max_position_value |-> DefaultPositionValue,
     trailing_stop_percent |-> Null, stop_loss_percent |-> Null,
     take_profit_percent |-> Null]

InitMatch ==
    /\ settings = [u \in Users |-> SettingsRow(u, DefaultMaxDailyTrades, DefaultMaxDailyLoss)]
    /\ \E second \in BOOLEAN, down \in BOOLEAN :
         signalRules = << MatchRule(1, "bb_breakout_up", TRUE),
                          MatchRule(1, "bb_breakout_up", second),
                          MatchRule(2, "bb_breakout_up", TRUE),
                          MatchRule(1, "bb_breakout_down", down) >>
    /\ signals = <<>>
    /\ orders = <<>>
    /\ positions = <<>>
    /\ now = 1
    /\ eps = [w \in Workers |-> EpsIdle]
    /\ scan = ScanIdle
    /\ uts = UtsIdle
    /\ utsOverlap = UtsIdle
    /\ ind = IndIdle
    /\ risk = <<>>
    /\ passes = 0
    /\ faults = MaxFaults

NextMatch ==
    \/ signals = <<>> /\ Quiet /\ ScanLoad /\ UNCHANGED passes
    \/ ScanStep

SpecMatch == InitMatch /\ [][NextMatch]_vars

\* Every operation on signals and orders together: the scanner (on an empty
\* signals table), execute-pending-signals and update-trailing-stops passes
\* one after another, the user's place-order, cancel-order and modify-order
\* requests between passes, the broker filling orders; store writes may fail.
MaxOrders == 1
OrdersRules == << DefaultRules[1] >>
PlaceRequests ==
    [signalId : {0, 1}, side : {"buy"}, quantity : {1}, limitPrice : {100},
     trailingStopPercent : {Null}, stopLossPrice : {Null}, takeProfitPrice : {Null}]
ModifyRequests ==
    [limitPrice : {Null}, trailingStopPercent : {Some(100)},
     stopLossPrice : {Some(90000)}, takeProfitPrice : {Null}]

OrdersQuiet == Quiet /\ uts.pc = "idle"

UserPlacesOrder ==
    /\ OrdersQuiet
    /\ Cardinality({i \in 1..Len(orders) : orders[i].ibkr_order_id = "IBKR"}) < MaxOrders
    /\ \E user \in Users, request \in PlaceRequests : PlaceOrder(user, request)

UserCancelsOrder ==
    /\ OrdersQuiet
    /\ \E user \in Users, orderId \in 1..Len(orders) : CancelOrder(user, orderId)

UserModifiesOrder ==
    /\ OrdersQuiet
    /\ \E user \in Users, orderId \in 1..Len(orders), request \in ModifyRequests :
         ModifyOrder(user, orderId, request)

InitOrders ==
    /\ settings = [u \in Users |-> SettingsRow(u, DefaultMaxDailyTrades, DefaultMaxDailyLoss)]
    /\ signalRules = OrdersRules
    /\ signals = <<>>
    /\ orders = <<>>
    /\ positions = <<>>
    /\ now = 1
    /\ eps = [w \in Workers |-> EpsIdle]
    /\ scan = ScanIdle
    /\ uts = UtsIdle
    /\ utsOverlap = UtsIdle
    /\ ind = IndIdle
    /\ risk = <<>>
    /\ passes = 0
    /\ faults = MaxFaults

NextOrders ==
    \/ OrdersQuiet /\ EpsLoad(1) /\ UNCHANGED passes
    \/ OrdersQuiet /\ signals = <<>> /\ ScanLoad /\ UNCHANGED passes
    \/ OrdersQuiet /\ UtsLoad /\ UNCHANGED passes
    \/ EpsStep(1)
    \/ ScanStep
    \/ UtsPosition
    \/ UtsRespond
    \/ UserPlacesOrder
    \/ UserCancelsOrder
    \/ UserModifiesOrder
    \/ OrderFilled

SpecOrders == InitOrders /\ [][NextOrders]_vars

\* Re-invocation: each pass operation invoked twice in succession -- the
\* scan, the risk check, the trailing-stop update -- with the market data a
\* function of the clock, the clock and the settings fixed, no write failing;
\* passes counts the invocations started.
RepeatSchedule == <<"scan", "scan", "risk", "risk", "uts", "uts">>

\* what the market data of a clock value make the scan detect on an item, the
\* price of the signal, and the price update-trailing-stops sees (percent of
\* avg_cost)
RepeatFeed(t) ==
    IF t = 1 THEN [detected |-> <<"bb_breakout_up">>, price |-> 150, percent |-> 104]
    ELSE IF t = 2 THEN [detected |-> <<"bb_breakout_down">>, price |-> 40, percent |-> 95]
    ELSE [detected |-> <<>>, price |-> 0, percent |-> 100]

RepeatQuiet == Quiet /\ uts.pc = "idle"
RepeatNext == IF passes < Len(RepeatSchedule) THEN RepeatSchedule[passes + 1] ELSE "none"

RepeatScanLoad == RepeatQuiet /\ RepeatNext = "scan" /\ ScanLoad /\ passes' = passes + 1
RepeatRiskCheck == RepeatQuiet /\ RepeatNext = "risk" /\ CheckRiskLimits /\ passes' = passes + 1
RepeatUtsLoad == RepeatQuiet /\ RepeatNext = "uts" /\ UtsLoad /\ passes' = passes + 1

\* the scan of an item on the market data of the clock
RepeatScanItem ==
    /\ ScanItem
    /\ scan'.detected = RepeatFeed(now).detected
    /\ scan'.pc = "signal" => scan'.price = RepeatFeed(now).price

\* the update of a position at the price of the clock
RepeatUtsPosition ==
    /\ UtsPosition
    /\ LET seen == uts'.logs[Len(uts'.logs)]
       IN  seen.currentPrice = (positions[seen.id].avg_cost * RepeatFeed(now).percent) \div 100

InitRepeat ==
    /\ settings = [u \in Users |-> SettingsRow(u, DefaultMaxDailyTrades, DefaultMaxDailyLoss)]
    /\ \E long \in MonitorLongTrailing, short \in MonitorShortTrailing, stops \in MonitorStops :
         signalRules = << MonitorRule("bb_breakout_up", long, stops),
                          MonitorRule("bb_breakout_down", short, stops) >>
    /\ signals = <<>>
    /\ orders = <<>>
    /\ positions = <<>>
    /\ now \in Times
    /\ eps = [w \in Workers |-> EpsIdle]
    /\ scan = ScanIdle
    /\ uts = UtsIdle
    /\ utsOverlap = UtsIdle
    /\ ind = IndIdle
    /\ risk = <<>>
    /\ passes = 0
    /\ faults = 0

NextRepeat ==
    \/ RepeatScanLoad
    \/ RepeatScanItem
    \/ ScanSignal \/ ScanSettings \/ ScanOrder \/ ScanMark \/ ScanPosition \/ ScanRespond
    \/ RepeatRiskCheck
    \/ RepeatUtsLoad
    \/ RepeatUtsPosition
    \/ UtsRespond

SpecRepeat == InitRepeat /\ [][NextRepeat]_vars

\* Signals that cannot be sized: besides the scanner, a signed-in user may
\* insert signal rows of their own (the table's insert policy), with any
\* price; the rules' position caps are drawn from a small set; no write fails.
SkipPrices == {0, 40, 150}
SkipRuleValues == {50, 10000}

UserInsertsSignal ==
    /\ Quiet
    /\ Len(signals) < MaxSignals
    /\ \E rule \in DOMAIN signalRules, price \in SkipPrices :
         signals' = Append(signals,
                       [user_id |-> signalRules[rule].user_id, signal_rule_id |-> rule,
                        signal_type |-> signalRules[rule].signal_type,
                        price_at_signal |-> price, executed |-> FALSE])
    /\ UNCHANGED <<risk, ind, uts, settings, signalRules, utsOverlap, orders, positions, now, eps, scan, passes, faults>>

InitSkip ==
    /\ settings = [u \in Users |-> SettingsRow(u, DefaultMaxDailyTrades, DefaultMaxDailyLoss)]
    /\ \E value \in SkipRuleValues :
         signalRules = CalcRules(value, DefaultPercent, <<Null, Null>>)
    /\ signals = <<>>
    /\ orders = <<>>
    /\ positions = <<>>
    /\ now = 1
    /\ eps = [w \in Workers |-> EpsIdle]
    /\ scan = ScanIdle
    /\ uts = UtsIdle
    /\ utsOverlap = UtsIdle
    /\ ind = IndIdle
    /\ risk = <<>>
    /\ passes = 0
    /\ faults = 0

NextSkip ==
    \/ Quiet /\ EpsLoad(1) /\ UNCHANGED passes
    \/ Quiet /\ ScanLoad /\ UNCHANGED passes
    \/ EpsStep(1)
    \/ ScanStep
    \/ UserInsertsSignal

SpecSkip == InitSkip /\ [][NextSkip]_vars

\* The monitor and the user's dialog: a position may be closed by hand at
\* any moment, also between a pass's read of the open positions and its
\* write for one of them.
UserClosesPosition == \E id \in 1..Len(positions) : ClosePosition(id)

NextClose ==
    \/ UtsLoad /\ UNCHANGED passes
    \/ UtsPosition
    \/ UtsRespond
    \/ UserClosesPosition

SpecClose == InitMonitor /\ [][NextClose]_vars

(* ------------------------------- claims ------------------------------- *)
OrdersOf(sid) == {i \in 1..Len(orders) : orders[i].signal_id = sid}
PositionsOf(oid) == {i \in 1..Len(positions) : positions[i].order_id = oid}
NoWriteFailed == faults = MaxFaults

\* C1: with passes run one after another and every store write succeeding,
\* no signal ever has two orders, and a signal that a pass has selected and
\* not yet reached has no order: an executed signal is never selected again.
C1_OneOrderPerSignalSequential ==
    NoWriteFailed =>
        /\ \A sid \in 1..Len(signals) : Cardinality(OrdersOf(sid)) <= 1
        /\ \A w \in Workers :
             eps[w].pc = "exec" =>
                \A k \in eps[w].si..Len(eps[w].sigs) :
                    /\ ~signals[eps[w].sigs[k]].executed
                    /\ OrdersOf(eps[w].sigs[k]) = {}

\* C1 witness: a later pass works on a user one of whose signals an earlier
\* execute-pending-signals pass executed; its selection left that signal out.
C1_Witness ==
    /\ NoWriteFailed
    /\ eps[1].pc = "exec"
    /\ \E sid \in 1..Len(signals) :
         /\ signals[sid].user_id = eps[1].users[eps[1].ui].user_id
         /\ signals[sid].executed
         /\ \E i \in OrdersOf(sid) : orders[i].ibkr_order_id = "AUTO"
         /\ \A k \in 1..Len(eps[1].sigs) : eps[1].sigs[k] # sid

\* C2: when signal-executing passes overlap, at most one order references any
\* given signal.  (The code selects executed = false and marks the signal only
\* after the order insert, so two passes can both select the same signal.)
C2_NoSignalExecutedTwice ==
    \A sid \in 1..Len(signals) : Cardinality(OrdersOf(sid)) <= 1

\* C3: once the number of orders created today for a user has reached the
\* user's maxDailyTrades (clamped to [1, 1000]), no step of any engine path
\* creates a further order for that user.
C3_NoOrderBeyondMaxDailyTrades ==
    [][\A u \in Users :
          TodaysTrades(u) >= EffectiveMaxDailyTrades(settings[u])
              => TodaysTrades(u)' = TodaysTrades(u)]_vars

\* C4: an order is created for a user only at a time t of the half-open
\* window tradingHoursStart <= t < tradingHoursEnd; at t = tradingHoursEnd
\* and outside the window no order is created for that user.
C4_OrdersOnlyInsideHalfOpenWindow ==
    [][\A u \in Users :
          TodaysTrades(u)' > TodaysTrades(u)
              => /\ settings[u].trading_hours_start <= now
                 /\ now < settings[u].trading_hours_end]_vars

\* C5: a step of execute-pending-signals creates an order for a user only if
\* the user's realized daily P&L is strictly greater than -maxDailyLoss, where
\* maxDailyLoss is the configured value clamped to [0, 1000000] (0 stays 0).
C5_OrdersOnlyAboveDailyLoss ==
    [][\A w \in Workers :
          (eps[w].pc = "exec" /\ eps'[w].pc = "mark")
              => LET s == eps[w].users[eps[w].ui]
                 IN  DailyPnL(s.user_id) > -Max(0, Min(MaxMoney, s.max_daily_loss))]_vars

\* the quantity the sizing rule gives: floor(min(settings.maxPositionSize,
\* rule.maxPositionValue, accountValue * positionSizePercent / 100) / price),
\* positionSizePercent clamped to [0.1, 100], maxPositionValue to [100, 1000000]
\* (an unset number takes the default the code gives it)
C6_ClaimedQuantity(s, rule, price) ==
    LET percent == Max(MinPercent, Min(MaxSizePercent,
                       OrDefault(rule.position_size_percent, DefaultPercent)))
        ruleValue == Max(100, Min(1000000,
                       OrDefault(rule.max_position_value, DefaultPositionValue)))
        settingsValue == OrDefault(s.max_position_size, DefaultPositionValue)
    IN  Min(Min(1000 * settingsValue, 1000 * ruleValue), DefaultAccountValue * percent)
            \div (1000 * price)

\* C6: the quantity of every order created for a signal is the quantity the
\* sizing rule gives for the user's settings, the signal's rule and its price.
C6_QuantityIsSizingRule ==
    \A i \in 1..Len(orders) :
        LET sg == signals[orders[i].signal_id]
        IN  orders[i].quantity =
                C6_ClaimedQuantity(settings[orders[i].user_id],
                                   signalRules[sg.signal_rule_id], sg.price_at_signal)

\* the rule of the signal an order was created for
RuleOfOrder(o) == signalRules[signals[o.signal_id].signal_rule_id]

C7_Side(signalType) ==
    IF signalType \in {"bb_breakout_up", "bb_mean_reversion_up", "vwap_cross_up"}
    THEN "buy" ELSE "sell"

\* price * (1 - sign * percent / 100) in thousandths, absent without a percent
C7_Below(price, side, pct) ==
    IF ~Truthy(pct) THEN Null
    ELSE IF side = "buy" THEN Some(price * (1000 - pct[1]))
    ELSE Some(price * (1000 + pct[1]))
C7_Above(price, side, pct) ==
    IF ~Truthy(pct) THEN Null
    ELSE IF side = "buy" THEN Some(price * (1000 + pct[1]))
    ELSE Some(price * (1000 - pct[1]))

C7_Clamped(pct, top) == IF Truthy(pct) THEN Some(Max(1, Min(top, pct[1]))) ELSE pct

\* C7 as stated: the side of every order follows its signal type, and its stop
\* loss and take profit are the signal price moved by the configured percents
\* as they are; a price is absent iff its percent is not configured.
C7_ProtectivePricesUnclamped ==
    \A i \in 1..Len(orders) :
        LET o == orders[i]
            sg == signals[o.signal_id]
            rule == RuleOfOrder(o)
        IN  /\ o.side = C7_Side(sg.signal_type)
            /\ o.stop_loss_price = C7_Below(sg.price_at_signal, o.side, rule.stop_loss_percent)
            /\ o.take_profit_price = C7_Above(sg.price_at_signal, o.side, rule.take_profit_percent)

\* C7 amended: the side of every order follows its signal type; its stop loss
\* is the signal price moved against the position by the stop-loss percent
\* clamped to [0.1, 50], its take profit the price moved in favour of the
\* position by the take-profit percent clamped to [0.1, 100]; a price is
\* absent iff its percent is null or 0.
C7_ProtectivePricesClamped ==
    \A i \in 1..Len(orders) :
        LET o == orders[i]
            sg == signals[o.signal_id]
            rule == RuleOfOrder(o)
        IN  /\ o.side = C7_Side(sg.signal_type)
            /\ o.stop_loss_price =
                 C7_Below(sg.price_at_signal, o.side, C7_Clamped(rule.stop_loss_percent, 500))
            /\ o.take_profit_price =
                 C7_Above(sg.price_at_signal, o.side, C7_Clamped(rule.take_profit_percent, 1000))
            /\ IsNull(o.stop_loss_price) <=> ~Truthy(rule.stop_loss_percent)
            /\ IsNull(o.take_profit_price) <=> ~Truthy(rule.take_profit_percent)

\* C7 witness: both engine paths have created orders, a buy and a sell, for
\* rules whose percents (60 and 150) lie beyond the clamps.
C7_Witness ==
    \E i, j \in 1..Len(orders) :
        /\ orders[i].ibkr_order_id = "AUTO" /\ orders[i].side = "sell"
        /\ orders[j].ibkr_order_id = "SCAN" /\ orders[j].side = "buy"
        /\ RuleOfOrder(orders[i]).stop_loss_percent = Some(600)
        /\ RuleOfOrder(orders[j]).take_profit_percent = Some(1500)
        /\ orders[i].stop_loss_price = Some(orders[i].limit_price * 1500)
        /\ orders[j].take_profit_price = Some(orders[j].limit_price * 2000)

\* the order insert of execute-pending-signals worker w fails in this step
C8_EpsOrderWriteFails(w) == eps[w].pc = "exec" /\ faults' < faults
\* the order insert of the scanner's auto-execution fails in this step
C8_ScanOrderWriteFails == scan.pc = "order" /\ faults' < faults

\* C8: a failed order write leaves the signal unexecuted and inserts no
\* position (no signal is ever marked, and no position ever exists, without
\* its order), and the pass goes on with its next signal, or else its next
\* user (the scanner: its next rule, or else its next watchlist item).
C8_OrderFailureIsolated ==
    [][/\ \A w \in Workers :
            C8_EpsOrderWriteFails(w) =>
                /\ orders' = orders /\ signals' = signals /\ positions' = positions
                /\ ~signals'[eps[w].sigs[eps[w].si]].executed
                /\ eps'[w].executed = eps[w].executed
                /\ IF eps[w].si < Len(eps[w].sigs)
                   THEN /\ eps'[w].pc = "exec"
                        /\ eps'[w].sigs = eps[w].sigs
                        /\ eps'[w].si = eps[w].si + 1
                        /\ eps'[w].ui = eps[w].ui
                   ELSE IF eps[w].ui < Len(eps[w].users)
                   THEN eps'[w].pc = "gate" /\ eps'[w].ui = eps[w].ui + 1
                   ELSE eps'[w].pc = "respond"
       /\ C8_ScanOrderWriteFails =>
                /\ orders' = orders /\ signals' = signals /\ positions' = positions
                /\ ~signals'[scan.sig].executed
                /\ IF scan.wi < Len(scan.work)
                   THEN scan'.pc = "signal" /\ scan'.wi = scan.wi + 1 /\ scan'.ii = scan.ii
                   ELSE IF scan.ii < Len(scan.items)
                   THEN scan'.pc = "item" /\ scan'.ii = scan.ii + 1
                   ELSE scan'.pc = "respond"
       /\ \A sid \in 1..Len(signals') : signals'[sid].executed => OrdersOf(sid)' # {}
       /\ \A k \in 1..Len(positions') : positions'[k].order_id \in 1..Len(orders')
      ]_vars

\* C8 witness: in one pass the order write failed for the first selected
\* signal, which stays unexecuted without order, and the pass has gone on to
\* insert the order of the second.
C8_Witness ==
    /\ eps[1].pc = "mark"
    /\ eps[1].si = 2
    /\ eps[1].skipped = <<>>
    /\ OrdersOf(eps[1].sigs[1]) = {}
    /\ ~signals[eps[1].sigs[1]].executed
    /\ OrdersOf(eps[1].sigs[2]) # {}

\* C9: whenever no pass is running, every order has its signal marked
\* executed and exactly one position referencing it, whatever the outcomes
\* of the store writes were.
C9_ExecutionAtomic ==
    Quiet =>
        \A i \in 1..Len(orders) :
            /\ signals[orders[i].signal_id].executed
            /\ Cardinality(PositionsOf(i)) = 1

\* C10: every position an engine path inserts has the quantity of its order
\* (at least 1), positive for a buy and negative for a sell, the signal's
\* price as average cost, is open, and carries the stop-loss and take-profit
\* prices stored on its order.
C10_PositionMatchesOrder ==
    [][Len(positions') > Len(positions) =>
          LET p == positions'[Len(positions')]
              o == orders'[p.order_id]
              sg == signals'[o.signal_id]
          IN  /\ Len(positions') = Len(positions) + 1
              /\ o.quantity >= 1
              /\ o.side = "buy" => p.quantity = o.quantity
              /\ o.side = "sell" => p.quantity = -o.quantity
              /\ o.side \in {"buy", "sell"}
              /\ p.avg_cost = sg.price_at_signal
              /\ p.is_open
              /\ p.stop_loss_price = o.stop_loss_price
              /\ p.take_profit_price = o.take_profit_price
              /\ p.user_id = o.user_id]_vars

\* C10 witness: both engine paths have inserted positions, a short one with
\* protective prices and a long one.
C10_Witness ==
    \E j, k \in 1..Len(positions) :
        /\ positions[j].quantity < 0
        /\ orders[positions[j].order_id].side = "sell"
        /\ ~IsNull(positions[j].stop_loss_price)
        /\ positions[k].quantity > 0
        /\ orders[positions[k].order_id].ibkr_order_id
             # orders[positions[j].order_id].ibkr_order_id

\* the position update-trailing-stops has just worked on, and the price it saw
C11_Processed == uts'.logs[Len(uts'.logs)]
C11_ProcessesLong ==
    /\ uts.pc = "position"
    /\ Len(uts'.logs) = Len(uts.logs) + 1
    /\ positions[C11_Processed.id].quantity > 0
    /\ Truthy(positions[C11_Processed.id].trailing_stop_price)

C11_NeverDecreases ==
    \A k \in 1..Len(positions) :
        (positions[k].quantity > 0 /\ Truthy(positions[k].trailing_stop_price))
            => /\ Truthy(positions'[k].trailing_stop_price)
               /\ positions'[k].trailing_stop_price[1] >= positions[k].trailing_stop_price[1]

\* C11 as stated: the trailing stop of a long position never decreases, and
\* a pass leaves it at max(old stop, currentPrice * (1 - trailingPercent/100))
\* with the order's trailing-stop percent as configured (5 when it is 0).
C11_RatchetUnclamped ==
    [][/\ C11_NeverDecreases
       /\ (C11_ProcessesLong /\ faults' = faults) =>
            LET k == C11_Processed.id
                raw == orders[positions[k].order_id].trailing_stop_percent[1]
                pct == IF raw = 0 THEN 50 ELSE raw
            IN  positions'[k].trailing_stop_price =
                    Some(Max(positions[k].trailing_stop_price[1],
                             C11_Processed.currentPrice * (1000 - pct)))]_vars

\* C11 amended: the trailing stop of a long position never decreases, and a
\* pass whose position update does not fail leaves it at max(old stop,
\* currentPrice * (1 - t/100)), t being the order's trailing-stop percent
\* clamped to [0.1, 50] (5 when it is 0).
C11_RatchetClamped ==
    [][/\ C11_NeverDecreases
       /\ (C11_ProcessesLong /\ faults' = faults) =>
            LET k == C11_Processed.id
                pct == orders[positions[k].order_id].trailing_stop_percent[1]
                t == IF pct = 0 THEN 50 ELSE IF pct < 1 THEN 1 ELSE IF pct > 500 THEN 500 ELSE pct
            IN  positions'[k].trailing_stop_price =
                    Some(Max(positions[k].trailing_stop_price[1],
                             C11_Processed.currentPrice * (1000 - t)))]_vars

\* C11 witness: a 5 percent stop that a pass raised to 98.8 at price 104 has
\* been left there by a later pass that saw the price 100.
C11_Witness ==
    /\ uts.pc = "position"
    /\ uts.pi = 2
    /\ uts.logs[1].id = 1 /\ uts.logs[1].currentPrice = 100
    /\ positions[1].quantity > 0
    /\ orders[positions[1].order_id].trailing_stop_percent = Some(50)
    /\ positions[1].trailing_stop_price = Some(98800)
    /\ positions[1].current_price = Some(104)

\* the close trigger by priority: stop loss, then take profit, then trailing
\* stop; the empty sequence when the price breaches none of them
C12_Trigger(position, currentPrice) ==
    IF Truthy(position.stop_loss_price) /\ 1000 * currentPrice <= position.stop_loss_price[1]
    THEN <<"STOP LOSS HIT">>
    ELSE IF Truthy(position.take_profit_price)
            /\ 1000 * currentPrice >= position.take_profit_price[1]
    THEN <<"TAKE PROFIT HIT">>
    ELSE IF Truthy(position.trailing_stop_price)
            /\ 1000 * currentPrice <= position.trailing_stop_price[1]
    THEN <<"TRAILING STOP HIT">>
    ELSE <<>>

\* C12: for every position an update-trailing-stops pass works on, what the
\* pass reports for it is exactly the one close trigger that the price
\* breaches first in the priority stop loss, take profit, trailing stop.
C12_OneTriggerByPriority ==
    [][(uts.pc = "position" /\ Len(uts'.logs) = Len(uts.logs) + 1) =>
          LET e == uts'.logs[Len(uts'.logs)]
          IN  e.logs = C12_Trigger(positions[e.id], e.currentPrice)]_vars

\* C13: when update-trailing-stops has worked on a position (and no store
\* write failed), the position's currentPrice is the price fetched for it and
\* its unrealizedPnl is (currentPrice - avgCost) * quantity, whether or not
\* the trailing stop was raised.
C13_PriceAndPnlRefreshed ==
    [][(uts.pc = "position" /\ Len(uts'.logs) = Len(uts.logs) + 1 /\ faults' = faults) =>
          LET e == uts'.logs[Len(uts'.logs)]
              p == positions'[e.id]
          IN  /\ p.current_price = Some(e.currentPrice)
              /\ p.unrealized_pnl = Some((e.currentPrice - p.avg_cost) * p.quantity)]_vars

\* how often the detector pushed a signal type
Occurrences(detected, signalType) ==
    Cardinality({k \in 1..Len(detected) : detected[k] = signalType})

\* no pair of prices fires a breakout and the opposite reversion at the same band
C14_NoDoubleFiring ==
    /\ ~(Occurrences(ind.detected, "bb_breakout_up") > 0
         /\ Occurrences(ind.detected, "bb_mean_reversion_down") > 0)
    /\ ~(Occurrences(ind.detected, "bb_breakout_down") > 0
         /\ Occurrences(ind.detected, "bb_mean_reversion_up") > 0)

\* C14 as stated: leaving the upper band upwards (previous = upper, current >
\* upper) emits bb_breakout_up exactly once; coming down onto the upper band
\* (previous > upper, current = upper) emits no bb_breakout_up and is emitted
\* as bb_mean_reversion_down; no pair fires a breakout and the opposite
\* reversion at the same band.
C14_LandingOnBandIsReversion ==
    ind.op = "detect" =>
        /\ (ind.previousPrice = ind.upper /\ ind.currentPrice > ind.upper
                => Occurrences(ind.detected, "bb_breakout_up") = 1)
        /\ (ind.previousPrice > ind.upper /\ ind.currentPrice = ind.upper
                => /\ Occurrences(ind.detected, "bb_breakout_up") = 0
                   /\ Occurrences(ind.detected, "bb_mean_reversion_down") = 1)
        /\ C14_NoDoubleFiring

\* C14, amended: leaving the upper band upwards (previous = upper, current >
\* upper) emits bb_breakout_up exactly once; coming down onto the upper band
\* (previous > upper, current = upper) emits neither bb_breakout_up nor
\* bb_mean_reversion_down, which is emitted exactly when previous > upper and
\* current < upper; no pair fires a breakout and the opposite reversion at the
\* same band.
C14_BoundaryConsistent ==
    ind.op = "detect" =>
        /\ (ind.previousPrice = ind.upper /\ ind.currentPrice > ind.upper
                => Occurrences(ind.detected, "bb_breakout_up") = 1)
        /\ (ind.previousPrice > ind.upper /\ ind.currentPrice = ind.upper
                => /\ Occurrences(ind.detected, "bb_breakout_up") = 0
                   /\ Occurrences(ind.detected, "bb_mean_reversion_down") = 0)
        /\ Occurrences(ind.detected, "bb_mean_reversion_down")
             = (IF ind.previousPrice > ind.upper /\ ind.currentPrice < ind.upper THEN 1 ELSE 0)
        /\ C14_NoDoubleFiring

\* a price came down from above the upper band and landed on it
C14_Witness ==
    /\ ind.op = "detect"
    /\ ind.previousPrice > ind.upper
    /\ ind.currentPrice = ind.upper
    /\ Occurrences(ind.detected, "bb_mean_reversion_down") = 0

\* C15 as stated: the VWAP of a series of one bar is that bar's typical price
\* (high + low + close) / 3, whatever the bar's volume.
C15_SingleBarAnyVolume ==
    ind.op = "vwap" /\ Len(ind.bars) = 1
        => SameValue(ind.vwap, TypicalPrice(ind.bars[1]))

\* C15, amended: the VWAP of a series of one bar is that bar's typical price
\* for every positive volume, and 0 when the bar has no volume.
C15_SingleBarPositiveVolume ==
    ind.op = "vwap" /\ Len(ind.bars) = 1
        => IF ind.bars[1].volume > 0
           THEN SameValue(ind.vwap, TypicalPrice(ind.bars[1]))
           ELSE SameValue(ind.vwap, Fraction(0, 1))

\* a single bar with a volume other than 1 was averaged
C15_Witness ==
    /\ ind.op = "vwap"
    /\ Len(ind.bars) = 1
    /\ ind.bars[1].volume > 1
    /\ SameValue(ind.vwap, TypicalPrice(ind.bars[1]))

\* the enabled rules of a user for a signal type, read off the rules table
C16_EnabledRules(user, signalType) ==
    {r \in DOMAIN signalRules : /\ signalRules[r].enabled
                                /\ signalRules[r].user_id = user
                                /\ signalRules[r].signal_type = signalType}

\* the rules the scanner has paired with a signal type
C16_Processed(work, signalType) ==
    {work[k][2] : k \in {j \in 1..Len(work) : work[j][1] = signalType}}

\* C16: for each signal type detected on a watchlist item the rules processed
\* are exactly the enabled rules of the item's user for that type, each once
\* (none for a type that was not detected, none disabled, of another user or
\* of another type), and each processed rule yields its own signal record,
\* carrying that rule and type, unless the insert of the record fails.
C16_ExactlyMatchingRules ==
    [][/\ (scan.pc = "item" /\ (scan'.pc # "item" \/ scan'.ii # scan.ii))
            => LET item == Watchlist[scan.items[scan.ii]]
                   work == scan'.work
               IN  /\ \A t \in SignalTypes :
                         C16_Processed(work, t)
                           = (IF Occurrences(scan'.detected, t) > 0
                              THEN C16_EnabledRules(item.user_id, t) ELSE {})
                   /\ Cardinality({work[k] : k \in 1..Len(work)}) = Len(work)
       /\ scan.pc = "signal"
            => LET item == Watchlist[scan.items[scan.ii]]
                   w == scan.work[scan.wi]
               IN  \/ /\ Len(signals') = Len(signals) + 1
                      /\ signals'[Len(signals')].signal_rule_id = w[2]
                      /\ signals'[Len(signals')].signal_type = w[1]
                      /\ signals'[Len(signals')].user_id = item.user_id
                      /\ signalRules[w[2]].enabled
                      /\ signalRules[w[2]].user_id = item.user_id
                      /\ signalRules[w[2]].signal_type = w[1]
                   \/ /\ faults' < faults
                      /\ signals' = signals
       /\ (scan.pc \in {"settings", "order", "mark", "position"}
             /\ scan'.pc = "signal")
            => scan'.wi = scan.wi + 1 /\ scan'.work = scan.work
      ]_vars

\* two overlapping rules of one user each produced their own signal record
\* for the same crossing, although the other user has a rule for that type
C16_Witness ==
    /\ Len(signals) = 2
    /\ signals[1].user_id = signals[2].user_id
    /\ signals[1].signal_type = signals[2].signal_type
    /\ signals[1].signal_rule_id # signals[2].signal_rule_id
    /\ \E r \in DOMAIN signalRules :
          /\ signalRules[r].enabled
          /\ signalRules[r].signal_type = signals[1].signal_type
          /\ signalRules[r].user_id # signals[1].user_id

\* the scan is through with a watchlist item: it has moved on to the next
\* item or to the response
C17_ItemDone == scan.pc = "respond" \/ (scan.pc = "item" /\ scan.ii > 1)

\* the watchlist item the scan is through with (its detection is still held)
C17_Item == Watchlist[scan.items[IF scan.pc = "respond" THEN scan.ii ELSE scan.ii - 1]]

\* the signal records of a user
C17_SignalsOf(user) == {i \in 1..Len(signals) : signals[i].user_id = user}

\* C17 as stated: a scan creates exactly one signal record per detected
\* crossing, however many rules match it: when the scan is through with a
\* watchlist item (every write having succeeded, the table empty before the
\* scan), the item's user has as many signal records as crossings were
\* detected on the item.
C17_OneSignalPerCrossing ==
    C17_ItemDone /\ NoWriteFailed
        => Cardinality(C17_SignalsOf(C17_Item.user_id)) = Len(scan.detected)

\* the enabled rules of the item's user for the detected types, one entry per
\* (crossing, rule) pair
C17_MatchCount ==
    SeqSum([k \in 1..Len(scan.detected) |->
               Cardinality(C16_EnabledRules(C17_Item.user_id, scan.detected[k]))])

\* C17, amended: a scan creates exactly one signal record per pair of a
\* detected crossing and an enabled rule of the item's user for its type: none
\* for a crossing no rule matches, n for a crossing n rules match.
C17_OneSignalPerCrossingAndRule ==
    C17_ItemDone /\ NoWriteFailed
        => Cardinality(C17_SignalsOf(C17_Item.user_id)) = C17_MatchCount

\* a scan is through with an item on which one crossing was detected that two
\* rules matched
C17_Witness ==
    /\ C17_ItemDone
    /\ NoWriteFailed
    /\ Len(scan.detected) = 1
    /\ Cardinality(C17_SignalsOf(C17_Item.user_id)) = 2

\* the step is the marking step of an operation that holds the order it has
\* just written for signal i, or writes that order itself
C18_WroteOrderFor(i) ==
    \/ /\ scan.pc = "mark"
       /\ scan.sig = i
       /\ ~IsNull(scan.ord)
       /\ scan.ord[1].id \in 1..Len(orders)
       /\ orders[scan.ord[1].id].signal_id = i
    \/ \E w \in Workers :
          /\ eps[w].pc = "mark"
          /\ eps[w].sigs[eps[w].si] = i
          /\ ~IsNull(eps[w].ord)
          /\ eps[w].ord[1].id \in 1..Len(orders)
          /\ orders[eps[w].ord[1].id].signal_id = i
    \/ /\ Len(orders') = Len(orders) + 1
       /\ orders'[Len(orders')].signal_id = i
       /\ orders'[Len(orders')].ibkr_order_id = "IBKR"

\* C18: a signal's executed flag, once true, stays true through every step of
\* the scanner, execute-pending-signals, place-order, cancel-order, modify-
\* order, update-trailing-stops and the broker, no signal record disappears,
\* and the flag turns true only in a step of an operation that has
\* successfully written an order for that signal.
C18_ExecutedOnlyRises ==
    [][/\ Len(signals') >= Len(signals)
       /\ \A i \in 1..Len(signals) :
            /\ signals[i].executed => signals'[i].executed
            /\ (~signals[i].executed /\ signals'[i].executed) => C18_WroteOrderFor(i)
      ]_vars

\* a signal was marked by place-order (its only order is the placed one), and
\* the order has since been cancelled and modified while the flag stayed
C18_Witness ==
    \E i \in 1..Len(signals), o \in 1..Len(orders) :
        /\ signals[i].executed
        /\ OrdersOf(i) = {o}
        /\ orders[o].ibkr_order_id = "IBKR"
        /\ orders[o].status = "cancelled"
        /\ ~IsNull(orders[o].trailing_stop_percent)

\* how often a signal appears in the summary a pass has built so far: as an
\* executed entry (by its order) or as a skipped entry
C19_SignalReports(r, sid) ==
    Cardinality({k \in 1..Len(r.executed) : orders'[r.executed[k]].signal_id = sid})
    + Cardinality({k \in 1..Len(r.skipped) : r.skipped[k].signal_id = sid})

\* how often a user appears in the summary as skipped by the gate
C19_UserReports(r, user) ==
    Cardinality({k \in 1..Len(r.skipped) : r.skipped[k].user_id = user})

\* C19: every signal a pass of execute-pending-signals has selected is in the
\* pass's summary exactly once when the pass leaves it (as executed, skipped
\* or errored -- the summary has no errored part, so as executed or skipped),
\* also when its order write failed; every user the gate rejects is in it
\* exactly once; and the summary is what the pass responds with.
C19_EverySignalReported ==
    [][\A w \in Workers :
         /\ (eps[w].pc \in {"exec", "position"} /\ eps'[w] # eps[w] /\ eps'[w].pc # "mark")
              => C19_SignalReports(eps'[w], eps[w].sigs[eps[w].si]) = 1
         /\ (eps[w].pc \in {"gate", "pnl"} /\ eps'[w] # eps[w]
               /\ eps'[w].pc \notin {"pnl", "select"})
              => C19_UserReports(eps'[w], eps[w].users[eps[w].ui].user_id) = 1
         /\ (eps[w].pc \notin {"idle", "respond"} /\ eps'[w] # eps[w])
              => /\ SubSeq(eps'[w].executed, 1, Len(eps[w].executed)) = eps[w].executed
                 /\ SubSeq(eps'[w].skipped, 1, Len(eps[w].skipped)) = eps[w].skipped
      ]_vars

\* the moves of an order's status the claim allows
C20_Allowed(old, new) ==
    \/ new = old
    \/ old = "pending" /\ new = "submitted"
    \/ old = "submitted" /\ new \in {"filled", "cancelled", "rejected"}

\* C20: an order's status only moves along pending -> submitted -> (filled |
\* cancelled | rejected): every order is created with status submitted, and
\* no step -- of the engine paths, place-order, cancel-order, modify-order,
\* update-trailing-stops or the broker -- changes the status of an order that
\* is filled, cancelled or rejected.
C20_StatusOnlyForward ==
    [][/\ Len(orders') >= Len(orders)
       /\ \A i \in 1..Len(orders) : C20_Allowed(orders[i].status, orders'[i].status)
       /\ \A i \in (Len(orders) + 1)..Len(orders') : orders'[i].status = "submitted"
      ]_vars

\* the step belongs to the second of two successive invocations of an operation
C21_SecondInvocation == passes' \in {2 * k : k \in 1..Len(RepeatSchedule)}

\* C21: every pass operation is idempotent to re-invocation: with the same
\* market data, clock and settings, no step of a second invocation of the
\* scan, of the risk check or of the trailing-stop update changes the signals,
\* orders or positions the first invocation left.
C21_ReinvocationChangesNothing ==
    [][C21_SecondInvocation
          => signals' = signals /\ orders' = orders /\ positions' = positions]_vars

\* the open positions that reference an order, and whether its holding was closed
C22_OpenPositionsOf(oid) ==
    {i \in 1..Len(positions) : positions[i].order_id = oid /\ positions[i].is_open}
C22_HoldingClosed(oid) ==
    \E i \in 1..Len(positions) : positions[i].order_id = oid /\ ~positions[i].is_open

\* C22: every filled order whose holding has not been closed has exactly one
\* open position referencing it, and no open position references an order
\* that was cancelled or rejected.
C22_FilledOrderHasOnePosition ==
    \A o \in 1..Len(orders) :
        /\ (orders[o].status = "filled" /\ ~C22_HoldingClosed(o))
              => Cardinality(C22_OpenPositionsOf(o)) = 1
        /\ orders[o].status \in {"cancelled", "rejected"}
              => C22_OpenPositionsOf(o) = {}

\* the rows of a table that are not the user's are all still there, unchanged
C23_OthersRowsKept(old, new, user) ==
    /\ Len(new) >= Len(old)
    /\ \A i \in 1..Len(old) : old[i].user_id # user => new[i] = old[i]

\* the step leaves every signal, order and position of the other users alone
C23_OnlyTouches(user) ==
    /\ C23_OthersRowsKept(signals, signals', user)
    /\ C23_OthersRowsKept(orders, orders', user)
    /\ C23_OthersRowsKept(positions, positions', user)

\* C23: an order action performed for user A (place-order, cancel-order,
\* modify-order) never changes a signal, order or position owned by another
\* user; place-order with a signalId marks only a signal that belongs to A.
C23_OrderActionsStayWithinUser ==
    [][\A user \in Users :
          /\ \A request \in PlaceRequests :
                PlaceOrder(user, request) => C23_OnlyTouches(user)
          /\ \A orderId \in 1..Len(orders) :
                /\ CancelOrder(user, orderId) => C23_OnlyTouches(user)
                /\ \A request \in ModifyRequests :
                      ModifyOrder(user, orderId, request) => C23_OnlyTouches(user)]_vars

\* the part of C23 about cancel-order and modify-order alone
C23_CancelAndModifyStayWithinUser ==
    [][\A user \in Users : \A orderId \in 1..Len(orders) :
          /\ CancelOrder(user, orderId) => C23_OnlyTouches(user)
          /\ \A request \in ModifyRequests :
                ModifyOrder(user, orderId, request) => C23_OnlyTouches(user)]_vars

\* the signal is executed or an order already references it
C24_Spent(sid) == signals[sid].executed \/ OrdersOf(sid) # {}

\* C24: a signal produces at most one order across all order-creating
\* operations: a place-order request carrying the signalId of a signal that
\* is already executed, or already referenced by an order, creates no further
\* order for that signal.
C24_PlaceOrderRespectsExecuted ==
    [][\A user \in Users, request \in PlaceRequests :
          (PlaceOrder(user, request) /\ request.signalId # 0 /\ C24_Spent(request.signalId))
              => orders' = orders]_vars

\* the reason of the first check the user fails, in the order trading hours,
\* daily trades, daily loss
C25_FirstFailing(s) ==
    IF ~isWithinTradingHours(s.trading_hours_start, s.trading_hours_end, now)
    THEN "Outside trading hours"
    ELSE IF TodaysTrades(s.user_id) >= EffectiveMaxDailyTrades(s)
    THEN "Max daily trades reached"
    ELSE IF DailyPnL(s.user_id) <= -EffectiveMaxDailyLoss(s)
    THEN "Max daily loss reached"
    ELSE "none"

\* the user-level reasons a pass has recorded for a user
C25_ReasonsOf(r, user) == {k \in 1..Len(r.skipped) : r.skipped[k].user_id = user}

\* a step of the gate: a user who fails a check leaves the pass with the
\* reason of the first failing check and none of the user's signals selected;
\* a user who fails none gets no reason
C25_GateStep ==
    (eps[1].pc \in {"gate", "pnl"} /\ eps'[1] # eps[1]) =>
        LET r == eps[1]
            s == r.users[r.ui]
            f == C25_FirstFailing(s)
        IN  IF f = "none" \/ (r.pc = "gate" /\ f = "Max daily loss reached")
            THEN /\ eps'[1].skipped = r.skipped
                 /\ eps'[1].pc = (IF r.pc = "gate" THEN "pnl" ELSE "select")
            ELSE /\ eps'[1].skipped =
                      Append(r.skipped, [user_id |-> s.user_id, signal_id |-> 0, reason |-> f])
                 /\ eps'[1].pc \in {"gate", "respond"}
                 /\ eps'[1].sigs = <<>>
                 /\ eps'[1].executed = r.executed

\* no user has two reasons in one pass
C25_AtMostOneReason == \A u \in Users : Cardinality(C25_ReasonsOf(eps[1], u)) <= 1

\* a user with auto-trade off has exactly one reason in the response, and it
\* is 'auto-trade disabled'
C25_DisabledReported ==
    eps[1].pc = "respond" =>
        \A u \in Users :
            ~settings[u].auto_trade_enabled =>
                /\ Cardinality(C25_ReasonsOf(eps[1], u)) = 1
                /\ \A k \in C25_ReasonsOf(eps[1], u) :
                      eps[1].skipped[k].reason = "auto-trade disabled"

\* a user with auto-trade off is not part of the pass: no reason is recorded
\* for the user and none of the user's signals is selected
C25_DisabledNotInPass ==
    eps[1].pc # "idle" =>
        \A u \in Users :
            ~settings[u].auto_trade_enabled =>
                /\ \A k \in 1..Len(eps[1].users) : eps[1].users[k].user_id # u
                /\ C25_ReasonsOf(eps[1], u) = {}
                /\ \A k \in 1..Len(eps[1].sigs) : signals[eps[1].sigs[k]].user_id # u

\* C25 as stated: the gate short-circuits in the order auto-trade disabled,
\* trading hours, daily trades, daily loss; a failing user gets exactly one
\* reason, that of the first failing check, and a user with auto-trade off
\* gets 'auto-trade disabled'.
C25_OneReasonIncludingDisabled ==
    /\ [][C25_GateStep]_vars
    /\ [](C25_AtMostOneReason /\ C25_DisabledReported)

\* C25: for a user the pass has loaded (auto-trade on), the gate
\* short-circuits in the order trading hours, daily trades, daily loss: a
\* failing user gets exactly one reason, that of the first failing check, and
\* none of the user's signals is selected; a user with auto-trade off is not
\* loaded, gets no reason, and none of the user's signals is selected.
C25_OneReasonForLoadedUser ==
    /\ [][C25_GateStep]_vars
    /\ [](C25_AtMostOneReason /\ C25_DisabledNotInPass)

\* C25 witness: a user outside trading hours who has also reached the daily
\* trade limit was skipped for the hours, while the other user has
\* auto-trade off and is not in the pass.
C25_Witness ==
    /\ eps[1].pc = "respond"
    /\ \E u \in Users :
         /\ TodaysTrades(u) >= EffectiveMaxDailyTrades(settings[u])
         /\ \E k \in C25_ReasonsOf(eps[1], u) :
               eps[1].skipped[k].reason = "Outside trading hours"
    /\ \E u \in Users : ~settings[u].auto_trade_enabled

\* the reason execute-pending-signals records for a signal it cannot size, or
\* "none" for a signal it can
C26_Reason(s, sg) ==
    IF sg.price_at_signal <= 0 THEN "Invalid price"
    ELSE IF calculatePositionSize(s, signalRules[sg.signal_rule_id], sg.price_at_signal,
                                  DefaultAccountValue) <= 0
    THEN "Position size too small"
    ELSE "none"

\* execute-pending-signals meets a signal it cannot size: the reason is
\* recorded, nothing is written and the loop goes on with the next signal
C26_EpsSkips ==
    LET r == eps[1] IN
    (r.pc = "exec" /\ eps'[1] # r /\ C26_Reason(r.users[r.ui], signals[r.sigs[r.si]]) # "none")
        => /\ eps'[1].skipped =
                 Append(r.skipped,
                        [user_id |-> 0, signal_id |-> r.sigs[r.si],
                         reason |-> C26_Reason(r.users[r.ui], signals[r.sigs[r.si]])])
           /\ orders' = orders /\ positions' = positions /\ signals' = signals
           /\ ~signals'[r.sigs[r.si]].executed
           /\ eps'[1].executed = r.executed
           /\ r.si < Len(r.sigs)
                 => (eps'[1].pc = "exec" /\ eps'[1].si = r.si + 1 /\ eps'[1].sigs = r.sigs)

\* the scanner's auto-execution meets a signal it cannot size
C26_ScanDeclines ==
    /\ scan.pc = "settings"
    /\ scan' # scan
    /\ settings[Watchlist[scan.items[scan.ii]].user_id].auto_trade_enabled
    /\ scan'.pc # "order"

\* the scanner keeps no list of skipped signals (its response is message,
\* signalsGenerated, signals): the skip entries there are come from
\* execute-pending-signals
C26_RecordedSkips == {eps'[1].skipped[k].signal_id : k \in 1..Len(eps'[1].skipped)}

C27_Limit(s) == Max(1, Min(MaxTradesCap, s.max_daily_trades))

\* C27: after any sequence of passes within one day, the number of orders
\* created that day for a user never exceeds the user's maxDailyTrades clamped
\* to [1, 1000], also when one pass selects several unexecuted signals of a
\* user who was below the limit when the pass evaluated the gate.
C27_DailyOrdersWithinLimit ==
    \A u \in Users : TodaysTrades(u) <= C27_Limit(settings[u])

\* C28: when two update-trailing-stops passes overlap, a long position's
\* stored trailing stop still never decreases, over every interleaving of the
\* two passes' reads and writes and every pair of prices they observe.
C28_NeverDecreasesUnderOverlap ==
    [][\A k \in 1..Len(positions) :
          (positions[k].quantity > 0 /\ Truthy(positions[k].trailing_stop_price))
              => positions'[k].trailing_stop_price[1] >= positions[k].trailing_stop_price[1]]_vars

\* C29: the monitor never mutates a closed position: when a position is
\* closed by hand between a pass's read of the open positions and its write
\* for that position, the closed position's current price, unrealized P&L and
\* trailing stop remain as they were at the moment of closing.
C29_ClosedPositionUntouched ==
    [][\A k \in 1..Len(positions) :
          ~positions[k].is_open =>
              /\ positions'[k].current_price = positions[k].current_price
              /\ positions'[k].unrealized_pnl = positions[k].unrealized_pnl
              /\ positions'[k].trailing_stop_price = positions[k].trailing_stop_price]_vars

\* the part of C29 that concerns the reads: a pass never selects a position
\* that is closed when the pass reads the table
C29_ClosedPositionNotSelected ==
    [][(uts.pc = "idle" /\ uts'.pc = "position") =>
          \A j \in 1..Len(uts'.rows) : positions[uts'.rows[j].id].is_open]_vars

\* C30: for every position the execution engine created, long or short, a
\* monitor pass that observes a current price equal to avg_cost flags no
\* close trigger.
C30_NoTriggerAtEntryPrice ==
    [][(uts.pc = "position" /\ Len(uts'.logs) = Len(uts.logs) + 1) =>
          LET e == uts'.logs[Len(uts'.logs)]
          IN  e.currentPrice = positions[e.id].avg_cost => e.logs = <<>>]_vars

\* the part of C30 that concerns long positions
C30_NoTriggerAtEntryPriceLong ==
    [][(uts.pc = "position" /\ Len(uts'.logs) = Len(uts.logs) + 1) =>
          LET e == uts'.logs[Len(uts'.logs)]
          IN  (e.currentPrice = positions[e.id].avg_cost /\ positions[e.id].quantity > 0)
                  => e.logs = <<>>]_vars

====
